---------------------------- MODULE Spec2Model ----------------------------
(***************************************************************************)
(* Model of ragcode's incremental index build (src/ragcode/indexer.py).    *)
(*                                                                         *)
(* The persisted directory holds filemap.json (the Fingerprint Tracker),   *)
(* docstore.json (the Index Store), symbols.jsonl (the Symbol Sidecar) and *)
(* manifest.json.  build_index is modelled statement group by statement    *)
(* group: every write to the directory is a step of its own, so that an    *)
(* interruption between two writes is a reachable state.                   *)
(***************************************************************************)
EXTENDS Integers, Sequences, FiniteSets, TLC

\* ------------------------------------------------------------------ bounds
\* Contents are 0..MaxContent; content c splits into c nodes (0: none).
MaxContent == 2
\* Node ids are 1..MaxNodeId; a step that needs more fresh ids is disabled.
MaxNodeId == 6
\* At most MaxBuilds build_index invocations are followed, at most MaxEnv
\* changes made from outside between them, and at most MaxFaults failures
\* (a raising split, insert, delete or index construction, an interruption).
MaxBuilds == 2
MaxEnv == 2
MaxFaults == 1
\* How many edits of the source tree the two-invocation specification
\* follows: one before each overlapping invocation loads, and one more so
\* that the second does not see the change the first one indexes.
ConcEnv == 3
\* How many file-change events and how many seconds the watch
\* specification follows.
MaxEvents == 2
MaxTicks == 3

\* ------------------------------------------------------------ value spaces
\* Canonical paths, in the order sorted() (line 377) and os.walk yield them.
PathSeq == <<"a.py", "b.txt">>
Paths == {PathSeq[i] : i \in 1..Len(PathSeq)}
FileExt(cp) == IF cp = "a.py" THEN ".py" ELSE ".txt"
NotInCorpus == -1
Contents == 0..MaxContent
NodeIds == 1..MaxNodeId
\* The values _source_fingerprint can return for the profiles considered.
Sources == {"local:/a", "github:o/r@master"}
\* filemap["source"] when the key is None.
NoSource == ""
\* The sentinel hash "" that bootstrap writes (line 187).
EmptyHash == 0
\* Profile.max_file_size_kb (config.py line 27) and the ceiling of line 91.
max_file_size_kb == 1024
Ceiling == max_file_size_kb * 1024
\* The file sizes considered, in bytes: just under, at and just over it.
FileSizes == {Ceiling - 1, Ceiling, Ceiling + 1}
\* What _source_fingerprint returns for a profile without path and repo.
UnknownSource == "unknown"
\* The values of profile.embed considered (config.py line 19 is the first).
EmbedSpecs == {"openai:text-embedding-3-large", "ollama:nomic-embed-text"}
\* The embed of a manifest that does not exist.
NoEmbed == ""
\* The default of the watch command's --debounce option, in seconds.
debounce == 2
\* The clock when the watcher starts: time.time() is far past `debounce`.
WatchEpoch == debounce

VARIABLES
    \* the environment
    corpus,        \* [Paths -> Contents \cup {NotInCorpus}]: the source tree
    st_size,       \* [Paths -> FileSizes]: the size of each file of the tree
    profSource,    \* the source the profile names
    profEmbed,     \* profile.embed, the embedding backend of the profile
    \* the persisted directory
    dirExists,     \* the directory itself is there
    filemap,       \* filemap.json
    docstore,      \* docstore.json and the other files of the storage context
    storeBroken,   \* "no", or what is damaged so that load_index_from_storage
                   \* raises: "docstore" (docstore.json itself does not parse)
                   \* or "other" (another file of the storage context)
    symbols,       \* symbols.jsonl
    manifest,      \* manifest.json
    \* one build_index invocation
    pc,            \* position in build_index; "idle" between invocations
    incremental,   \* the local of that name
    fm,            \* the local filemap (prev_files is fm.files)
    added_paths, modified_paths, removed_paths,
    index,         \* the in-memory VectorStoreIndex, or NoIndex
    new_nodes,     \* path -> ids of the nodes made for it in this run
    new_map,       \* the tracker about to be saved
    symbol_rows,   \* symbol_rows / new_symbol_rows
    nodes_count, symbols_count,
    mode,          \* which branch the run took: "", "noop", "full", "incr"
    calls,         \* the Index Store calls this run issued, in order
    \* history
    outcome,       \* how the last invocation ended: "none","done","crashed","raised"
    clean,         \* nothing changed since the last completed build
    runClean,      \* the current (or last) run started with clean = TRUE
    stamp,         \* the files map left by the build that made clean TRUE
    run0,          \* filemap and docstore as they were when the run started
    used,          \* how much of MaxBuilds, MaxEnv and MaxFaults is spent
    \* beside the single invocation
    other,         \* a second build_index invocation on the same directory,
                   \* while it is not the one taking steps: its pc and locals
    watch          \* the state of `ragcode watch`: clock, handler, event queue

envVars == <<corpus, st_size, profSource, profEmbed>>
diskVars == <<filemap, docstore, storeBroken, symbols, manifest>>
diffVars == <<added_paths, modified_paths, removed_paths>>
runVars == <<incremental, fm, diffVars, index, new_nodes, new_map,
             symbol_rows, nodes_count, symbols_count, mode, calls>>
histVars == <<outcome, clean, runClean, stamp, run0>>
sideVars == <<other, watch>>
vars == <<envVars, dirExists, diskVars, pc, runVars, histVars, used, sideVars>>

\* ----------------------------------------------------------------- helpers
Range(s) == {s[i] : i \in 1..Len(s)}
Min(S) == CHOOSE x \in S : \A y \in S : x <= y

RECURSIVE SetToSeq(_)
\* The elements of a finite set of integers, ascending.
SetToSeq(S) == IF S = {} THEN <<>> ELSE <<Min(S)>> \o SetToSeq(S \ {Min(S)})

RECURSIVE SumLen(_, _)
\* sum(len(v.get("node_ids", [])) for v in files.values()) (lines 273, 437)
SumLen(files, S) ==
    IF S = {} THEN 0
    ELSE LET p == CHOOSE q \in S : TRUE
         IN  Len(files[p].node_ids) + SumLen(files, S \ {p})
NodesInFiles(files) == SumLen(files, DOMAIN files)

RECURSIVE FlattenIds(_, _)
\* The concatenation of ids[p] for the paths of PathSeq from position i on.
FlattenIds(ids, i) ==
    IF i > Len(PathSeq) THEN <<>>
    ELSE (IF PathSeq[i] \in DOMAIN ids THEN ids[PathSeq[i]] ELSE <<>>)
         \o FlattenIds(ids, i + 1)

\* All node ids a files map lists.
TrackerIds(files) == UNION {Range(files[p].node_ids) : p \in DOMAIN files}

EmptyFiles == [p \in {} |-> 0]

\* ------------------------------------------------------- files on the disk
\* _sha256_text (lines 110-111): injective, and never the empty string.
Hash(c) == c + 1
\* What the splitters return for a document of content c: c nodes.
NodeCount(c) == c
\* _load_from_local (lines 79-105): a file larger than the ceiling is left
\* out (lines 91-92).
LoadFromLocal ==
    {p \in Paths : corpus[p] # NotInCorpus /\ ~(st_size[p] > Ceiling)}
\* _load_from_github (lines 57-77): every file the reader returns.
LoadFromGithub == {p \in Paths : corpus[p] # NotInCorpus}
\* documents (lines 216-221).
Documents ==
    IF profSource = "local:/a" THEN LoadFromLocal ELSE LoadFromGithub
\* cur_files / current_hashes_by_canon (lines 228-242).
CurPaths == Documents
CurHashes == [p \in CurPaths |-> Hash(corpus[p])]

FileEntry(h, ids) == [hash |-> h, node_ids |-> ids]
Tracker(src, files) == [version |-> 1, source |-> src, files |-> files]
\* The state _load_filemap returns for a missing or unparsable file.
EmptyTracker == Tracker(NoSource, EmptyFiles)

\* filemap.json: absent, cut short by an unfinished write_text, or complete.
AbsentFilemap == [kind |-> "absent", data |-> EmptyTracker]
PartialFilemap == [kind |-> "partial", data |-> EmptyTracker]
WrittenFilemap(t) == [kind |-> "ok", data |-> t]

\* A stored node: the canonical path in its metadata, the hash of the
\* document text it was cut from, and the backend that made its vector
\* (Settings.embed_model, set from profile.embed at line 209).
Node(cp, h) == [cp |-> cp, h |-> h, emb |-> profEmbed]
NoNodes == [n \in {} |-> Node("a.py", 0)]
AbsentStore == [exists |-> FALSE, nodes |-> NoNodes]
PersistedStore(nodes) == [exists |-> TRUE, nodes |-> nodes]
NoIndex == [loaded |-> FALSE, nodes |-> NoNodes]
LoadedIndex(nodes) == [loaded |-> TRUE, nodes |-> nodes]

AbsentSymbols == [exists |-> FALSE, rows |-> <<>>]
AbsentManifest ==
    [exists |-> FALSE, documents |-> 0, nodes |-> 0, symbols |-> 0,
     embed |-> NoEmbed]

\* filemap.json holding a JSON object whose "files" is a list, not an object.
WrongTypeFilemap == [kind |-> "wrongtype", data |-> EmptyTracker]
\* What json.loads and the setdefault calls (lines 118-122) make of it: the
\* "files" key is there, so it keeps its value, a list.
WrongTypeTracker == [version |-> 1, source |-> NoSource, files_list |-> <<"a.py">>]

\* _load_filemap (lines 113-124).
LoadFilemap(file) ==
    IF file.kind = "ok" THEN file.data
    ELSE IF file.kind = "wrongtype" THEN WrongTypeTracker
    ELSE EmptyTracker
\* prev_files.keys() (lines 263, 298) can be evaluated: "files" is a dict.
TrackerEnumerable(t) == "files" \in DOMAIN t

\* Mutant: the identity does not depend on the profile.
DesiredSourceUnknown == UnknownSource
\* _source_fingerprint (lines 139-144) of the profile.
DesiredSource == profSource

\* d.metadata["file_path"]: the resolved absolute path for a local source
\* (line 98), the repository path for a remote one (line 73).
FilePath(cp) ==
    IF profSource = "local:/a" THEN [root |-> "/a", rel |-> cp]
    ELSE [root |-> "", rel |-> cp]
\* A canonical path as a sidecar key.
CanonKey(cp) == [root |-> "", rel |-> cp]

\* extract_python_symbols (symbols.py lines 6-27): one row per definition;
\* content 0 holds none, every other content holds one.
ExtractSymbols(cp, c) ==
    IF c = 0 THEN <<>> ELSE <<[file_path |-> FilePath(cp), sym |-> c]>>

\* --------------------------------------------------------------- the diff
\* lines 263-269
DiffAdded(prev, cur) == DOMAIN cur \ DOMAIN prev
\* Mutant: no path is ever reported removed.
DiffRemovedNone(prev, cur) == {}
DiffRemoved(prev, cur) == DOMAIN prev \ DOMAIN cur
\* Mutant: an entry without a hash is not compared at all.
DiffModifiedSkipsEmpty(prev, cur) ==
    {p \in DOMAIN cur \cap DOMAIN prev :
        prev[p].hash # EmptyHash /\ cur[p] # prev[p].hash}
DiffModified(prev, cur) ==
    {p \in DOMAIN cur \cap DOMAIN prev : cur[p] # prev[p].hash}
\* The paths the incremental branch copies forward (lines 407-410).
CopiedForward(prev, removed, modified) ==
    {p \in DOMAIN prev : ~(p \in removed \/ p \in modified)}

\* ------------------------------------------------------------- bootstrap
\* _read_docstore_nodes (lines 146-168): the nodes of docstore.json.
ReadDocstoreNodes ==
    IF docstore.exists /\ storeBroken # "docstore" THEN docstore.nodes ELSE NoNodes

\* Mutant: the ids are not bucketed, every entry lists every stored node.
BootFilesOneBucket(nodes, cur) ==
    LET cps == {nodes[n].cp : n \in DOMAIN nodes}
    IN  [cp \in cps |->
            FileEntry(IF cp \in DOMAIN cur THEN cur[cp] ELSE EmptyHash,
                      SetToSeq(DOMAIN nodes))]
\* The buckets of lines 176-181 and the tracker of lines 184-187.
BootFiles(nodes, cur) ==
    LET cps == {nodes[n].cp : n \in DOMAIN nodes}
    IN  [cp \in cps |->
            FileEntry(IF cp \in DOMAIN cur THEN cur[cp] ELSE EmptyHash,
                      SetToSeq({n \in DOMAIN nodes : nodes[n].cp = cp}))]
BootTracker(t, nodes, cur) == Tracker(t.source, BootFiles(nodes, cur))

\* ------------------------------------------------------------ node making
\* Ids no node of the directory or of this run carries yet.
UsedIds ==
    DOMAIN docstore.nodes \cup DOMAIN index.nodes
    \cup TrackerIds(filemap.data.files) \cup TrackerIds(fm.files)
    \cup DOMAIN other.index.nodes \cup TrackerIds(other.new_map.files)
    \cup Range(FlattenIds(other.new_nodes, 1))
FreeIds == SetToSeq(NodeIds \ UsedIds)

RECURSIVE Offset(_, _)
\* How many nodes the paths before position i of PathSeq take.
Offset(count, i) ==
    IF i <= 1 THEN 0
    ELSE Offset(count, i - 1)
         + (IF PathSeq[i-1] \in DOMAIN count THEN count[PathSeq[i-1]] ELSE 0)
PosOf(p) == CHOOSE i \in 1..Len(PathSeq) : PathSeq[i] = p
TotalCount(count) == Offset(count, Len(PathSeq) + 1)

\* The ids of the nodes made for each path, count[p] fresh ids for path p.
MakeNodes(count) ==
    [p \in DOMAIN count |->
        SubSeq(FreeIds, Offset(count, PosOf(p)) + 1,
                        Offset(count, PosOf(p)) + count[p])]

\* Mutant: the nodes are stored without the canonical path of their
\* document.
AsStoreNodesUnstamped(ids, paths) ==
    LET all == UNION {Range(ids[p]) : p \in paths}
    IN  [n \in all |->
            LET p == CHOOSE q \in paths : n \in Range(ids[q])
            IN  Node("", Hash(corpus[p]))]
\* The nodes of the given paths as Index Store entries; every node carries
\* its document's canonical path (_force_node_meta, lines 191-202).
AsStoreNodes(ids, paths) ==
    LET all == UNION {Range(ids[p]) : p \in paths}
    IN  [n \in all |->
            LET p == CHOOSE q \in paths : n \in Range(ids[q])
            IN  Node(p, Hash(corpus[p]))]

\* f overridden by g where g is defined.
Merge(f, g) ==
    [x \in DOMAIN f \cup DOMAIN g |-> IF x \in DOMAIN g THEN g[x] ELSE f[x]]
Without(f, S) == [x \in DOMAIN f \ S |-> f[x]]

\* ---------------------------------------------------- tracker assembly
\* The full rebuild's tracker (lines 333-342): one entry per canonical path
\* found on a node of all_nodes.
\* Mutant: every entry shares one node_ids list, which collects all nodes.
FreshFilesSharedList(ids, cur) ==
    [cp \in {p \in DOMAIN ids : ids[p] # <<>>} |->
        FileEntry(cur[cp], FlattenIds(ids, 1))]
FreshFiles(ids, cur) ==
    [cp \in {p \in DOMAIN ids : ids[p] # <<>>} |-> FileEntry(cur[cp], ids[cp])]

\* updated_entries (lines 398-403).
UpdatedEntries(ids, cur) == [cp \in DOMAIN ids |-> FileEntry(cur[cp], ids[cp])]

\* Mutant: every previous entry is copied forward, removed ones included.
IncrFilesKeepsAll(prev, removed, modified, updated) == Merge(prev, updated)
\* The incremental tracker (lines 406-412).
IncrFiles(prev, removed, modified, updated) ==
    Merge([cp \in CopiedForward(prev, removed, modified) |-> prev[cp]], updated)

\* The no-op path's back-fill (lines 289-292).
NoopFiles(prev, cur) ==
    [cp \in DOMAIN prev |->
        IF prev[cp].hash = EmptyHash /\ cp \in DOMAIN cur
        THEN FileEntry(cur[cp], prev[cp].node_ids) ELSE prev[cp]]

\* Mutant: only the removed paths' nodes are collected.
ToDeleteIdsRemovedOnly(prev, removed, modified) ==
    FlattenIds([p \in removed |-> prev[p].node_ids], 1)
\* to_delete_ids (lines 362-365).
ToDeleteIds(prev, removed, modified) ==
    FlattenIds([p \in removed \cup modified |-> prev[p].node_ids], 1)

\* The rows the incremental branch keeps (lines 418-423).
KeptRows(rows, modified, removed) ==
    SelectSeq(rows, LAMBDA r : /\ r.file_path \notin {CanonKey(p) : p \in modified}
                               /\ r.file_path \notin {CanonKey(p) : p \in removed})

RECURSIVE RowsOf(_, _)
\* The rows extracted from the .py documents among `paths`, in path order.
RowsOf(paths, i) ==
    IF i > Len(PathSeq) THEN <<>>
    ELSE (IF PathSeq[i] \in paths /\ FileExt(PathSeq[i]) = ".py"
          THEN ExtractSymbols(PathSeq[i], corpus[PathSeq[i]]) ELSE <<>>)
         \o RowsOf(paths, i + 1)

RECURSIVE InsertCalls(_, _, _)
\* One insert_nodes call per path of `paths`, in sorted order (line 394).
InsertCalls(ids, failed, i) ==
    IF i > Len(PathSeq) THEN <<>>
    ELSE (IF PathSeq[i] \in DOMAIN ids
          THEN <<[op |-> "insert", ids |-> Range(ids[PathSeq[i]]),
                  ok |-> PathSeq[i] \notin failed]>>
          ELSE <<>>)
         \o InsertCalls(ids, failed, i + 1)

\* ------------------------------------------------------------------- Init
NoRun0 ==
    [fm |-> AbsentFilemap, ds |-> AbsentStore, broken |-> "no",
     sy |-> AbsentSymbols, mf |-> AbsentManifest, dir |-> FALSE]
NoNewNodes == [p \in {} |-> <<>>]

\* A second invocation that has not been started: pc and locals as at Init.
NoOther ==
    [pc |-> "idle", incremental |-> TRUE, fm |-> EmptyTracker,
     added_paths |-> {}, modified_paths |-> {}, removed_paths |-> {},
     index |-> NoIndex, new_nodes |-> NoNewNodes, new_map |-> EmptyTracker,
     symbol_rows |-> <<>>, nodes_count |-> 0, symbols_count |-> 0,
     mode |-> "", calls |-> <<>>]
\* `ragcode watch` not running.
NoWatch ==
    [on |-> FALSE, now |-> 0, last |-> 0, queue |-> 0, events |-> 0,
     covered |-> 0]

\* The locals of build_index before it has run.
RunReset ==
    /\ incremental' = TRUE
    /\ fm' = EmptyTracker
    /\ added_paths' = {}
    /\ modified_paths' = {}
    /\ removed_paths' = {}
    /\ index' = NoIndex
    /\ new_nodes' = NoNewNodes
    /\ new_map' = EmptyTracker
    /\ symbol_rows' = <<>>
    /\ nodes_count' = 0
    /\ symbols_count' = 0
    /\ mode' = ""
    /\ calls' = <<>>

\* An empty persist directory; any source tree, either profile.
Init ==
    /\ corpus \in [Paths -> Contents \cup {NotInCorpus}]
    /\ st_size = [p \in Paths |-> Ceiling - 1]
    /\ profSource \in Sources
    /\ dirExists = FALSE
    /\ filemap = AbsentFilemap
    /\ docstore = AbsentStore
    /\ storeBroken = "no"
    /\ symbols = AbsentSymbols
    /\ manifest = AbsentManifest
    /\ pc = "idle"
    /\ incremental = TRUE
    /\ fm = EmptyTracker
    /\ added_paths = {}
    /\ modified_paths = {}
    /\ removed_paths = {}
    /\ index = NoIndex
    /\ new_nodes = NoNewNodes
    /\ new_map = EmptyTracker
    /\ symbol_rows = <<>>
    /\ nodes_count = 0
    /\ symbols_count = 0
    /\ mode = ""
    /\ calls = <<>>
    /\ outcome = "none"
    /\ clean = FALSE
    /\ runClean = FALSE
    /\ stamp = EmptyFiles
    /\ run0 = NoRun0
    /\ used = [builds |-> 0, env |-> 0, faults |-> 0]
    /\ profEmbed = "openai:text-embedding-3-large"
    /\ other = NoOther
    /\ watch = NoWatch

\* ------------------------------------------------------- the environment
\* Something outside build_index touched the corpus, the profile or the
\* directory: what the last build left is no longer "unchanged".
EnvTouched ==
    /\ pc = "idle"
    /\ UNCHANGED <<dirExists, sideVars>>
    /\ UNCHANGED pc
    /\ used.env < MaxEnv
    /\ used' = [used EXCEPT !.env = @ + 1]
    /\ RunReset
    /\ outcome' = "none"
    /\ clean' = FALSE
    /\ runClean' = FALSE
    /\ stamp' = EmptyFiles
    /\ run0' = NoRun0

\* The positions of build_index from which on the text and the hashes of
\* the documents loaded at lines 216-242 are no longer read.
CorpusFreePcs ==
    {"idle", "noop_save", "noop_write", "fresh_save", "fresh_write",
     "fresh_symbols", "incr_save", "incr_write", "incr_symbols",
     "incr_persist", "manifest"}

\* A file of the source tree is created, edited or deleted.  An invocation
\* keeps the documents it loaded: the tree changes under a suspended
\* invocation only once it no longer reads them.
MutateCorpus(p, c) ==
    /\ EnvTouched
    /\ other.pc \in CorpusFreePcs
    /\ c # corpus[p]
    /\ corpus' = [corpus EXCEPT ![p] = c]
    /\ UNCHANGED <<st_size, profSource, profEmbed, diskVars>>

\* The profile is pointed at another source.
ChangeSource(s) ==
    /\ EnvTouched
    /\ s # profSource
    /\ profSource' = s
    /\ UNCHANGED <<corpus, st_size, profEmbed, diskVars>>

\* The profile names another embedding backend (profile.embed, which
\* _setup_embeddings hands to setup_embeddings_from_string at line 209).
ChangeEmbed(e) ==
    /\ EnvTouched
    /\ e # profEmbed
    /\ profEmbed' = e
    /\ UNCHANGED <<corpus, st_size, profSource, diskVars>>

\* filemap.json is lost while the rest of the directory survives.
DeleteFilemap ==
    /\ EnvTouched
    /\ filemap.kind # "absent"
    /\ filemap' = AbsentFilemap
    /\ UNCHANGED <<envVars, docstore, storeBroken, symbols, manifest>>

\* A file of the storage context is damaged: docstore.json is still there
\* but load_index_from_storage raises.
BreakStore(what) ==
    /\ EnvTouched
    /\ docstore.exists
    /\ storeBroken = "no"
    /\ storeBroken' = what
    /\ UNCHANGED <<envVars, filemap, docstore, symbols, manifest>>

\* docstore.json is deleted while filemap.json survives.
DeleteStore ==
    /\ EnvTouched
    /\ docstore.exists
    /\ docstore' = AbsentStore
    /\ storeBroken' = "no"
    /\ UNCHANGED <<envVars, filemap, symbols, manifest>>

\* ---------------------------------------------------------- build_index
\* Mutant: the source of the tracker is not looked at.
SourceChangedIgnored(t) == FALSE
\* line 247: the tracker names a source, and not the profile's.
SourceChanged(t) == t.source # NoSource /\ t.source # DesiredSource

\* n more failures happen in this step.
Faults(n) ==
    /\ used.faults + n <= MaxFaults
    /\ used' = [used EXCEPT !.faults = @ + n]

\* lines 206-249: load the documents, hash them, load the tracker, compare
\* its source with the profile's.
BuildEnter ==
    /\ pc = "idle"
    /\ used.builds < MaxBuilds
    /\ dirExists' = TRUE
    /\ profSource # UnknownSource
    /\ TrackerEnumerable(LoadFilemap(filemap))
    /\ used' = [used EXCEPT !.builds = @ + 1]
    /\ pc' = "bootstrap"
    /\ fm' = LoadFilemap(filemap)
    /\ incremental' = ~SourceChanged(fm')
    /\ added_paths' = {}
    /\ modified_paths' = {}
    /\ removed_paths' = {}
    /\ index' = NoIndex
    /\ new_nodes' = NoNewNodes
    /\ new_map' = EmptyTracker
    /\ symbol_rows' = <<>>
    /\ nodes_count' = 0
    /\ symbols_count' = 0
    /\ mode' = ""
    /\ calls' = <<>>
    /\ outcome' = "running"
    /\ runClean' = clean
    /\ run0' = [fm |-> filemap, ds |-> docstore, broken |-> storeBroken,
                sy |-> symbols, mf |-> manifest, dir |-> dirExists]
    /\ UNCHANGED <<envVars, diskVars, clean, stamp>>

\* build_index called from the command line (cli.py, the index command).
BuildStart == BuildEnter /\ UNCHANGED sideVars

\* lines 206-225 for a profile with neither path nor repo: the directory is
\* made (line 212), then the RuntimeError of line 225 ends the call.
BuildNoSource ==
    /\ pc = "idle"
    /\ used.builds < MaxBuilds
    /\ used' = [used EXCEPT !.builds = @ + 1]
    /\ profSource = UnknownSource
    /\ dirExists' = TRUE
    /\ UNCHANGED sideVars
    /\ RunReset
    /\ pc' = "idle"
    /\ outcome' = "raised"
    /\ clean' = FALSE
    /\ runClean' = clean
    /\ run0' = [fm |-> filemap, ds |-> docstore, broken |-> storeBroken,
                sy |-> symbols, mf |-> manifest, dir |-> dirExists]
    /\ UNCHANGED <<envVars, diskVars, stamp>>

\* lines 206-298 when the loaded tracker's "files" is a list: it is truthy,
\* so bootstrap is skipped (line 252), and prev_files.keys() (line 263 with
\* a store on disk, line 298 without) raises AttributeError.
BuildTrackerWrongType ==
    /\ pc = "idle"
    /\ used.builds < MaxBuilds
    /\ used' = [used EXCEPT !.builds = @ + 1]
    /\ profSource # UnknownSource
    /\ ~TrackerEnumerable(LoadFilemap(filemap))
    /\ dirExists' = TRUE
    /\ UNCHANGED sideVars
    /\ RunReset
    /\ pc' = "idle"
    /\ outcome' = "raised"
    /\ clean' = FALSE
    /\ runClean' = clean
    /\ run0' = [fm |-> filemap, ds |-> docstore, broken |-> storeBroken,
                sy |-> symbols, mf |-> manifest, dir |-> dirExists]
    /\ UNCHANGED <<envVars, diskVars, stamp>>

\* Mutant: a store without nodes is bootstrapped too.
BootstrapAppliesWithoutNodes ==
    /\ incremental
    /\ docstore.exists
    /\ fm.files = EmptyFiles

\* The condition of line 252 together with the early returns of
\* _bootstrap_filemap_if_missing (lines 171-175, 182-183).
BootstrapApplies ==
    /\ incremental
    /\ docstore.exists
    /\ fm.files = EmptyFiles
    /\ DOMAIN ReadDocstoreNodes # {}

\* lines 251-253 when there is nothing to bootstrap.
BootstrapSkip ==
    /\ UNCHANGED <<dirExists, sideVars>>
    /\ UNCHANGED used
    /\ pc = "bootstrap"
    /\ ~BootstrapApplies
    /\ pc' = "diff"
    /\ UNCHANGED <<envVars, diskVars, runVars, histVars>>

\* lines 176-187: the tracker rebuilt from the stored nodes, about to be
\* saved (line 188).
BootstrapBuild ==
    /\ UNCHANGED <<dirExists, sideVars>>
    /\ UNCHANGED used
    /\ pc = "bootstrap"
    /\ BootstrapApplies
    /\ new_map' = BootTracker(fm, ReadDocstoreNodes, CurHashes)
    /\ pc' = "boot_save"
    /\ UNCHANGED <<envVars, diskVars, incremental, fm, diffVars, index,
                   new_nodes, symbol_rows, nodes_count, symbols_count, mode,
                   calls, histVars>>

\* The end of a build_index call that returns its manifest.
Finish(files) ==
    /\ pc' = "idle"
    /\ outcome' = "done"
    /\ clean' = TRUE
    /\ stamp' = IF runClean THEN stamp ELSE files
    /\ UNCHANGED <<runClean, run0>>

\* _save_filemap (lines 126-127), first half: write_text opens the file for
\* writing, which truncates it.
SaveFilemapOpen ==
    /\ UNCHANGED <<dirExists, sideVars>>
    /\ UNCHANGED used
    /\ pc \in {"boot_save", "noop_save", "fresh_save", "incr_save"}
    /\ filemap' = PartialFilemap
    /\ pc' = CASE pc = "boot_save" -> "boot_write"
               [] pc = "noop_save" -> "noop_write"
               [] pc = "fresh_save" -> "fresh_write"
               [] pc = "incr_save" -> "incr_write"
    /\ UNCHANGED <<envVars, docstore, storeBroken, symbols, manifest,
                   runVars, histVars>>

\* Mutant: the save keeps the entries the other invocation assembled and
\* lays its own over them, instead of replacing the whole file.
SaveFilemapWriteMerging ==
    /\ UNCHANGED <<dirExists, sideVars>>
    /\ UNCHANGED used
    /\ pc \in {"boot_write", "noop_write", "fresh_write", "incr_write"}
    /\ filemap' = WrittenFilemap(Tracker(new_map.source,
                                 Merge(other.new_map.files, new_map.files)))
    /\ UNCHANGED <<envVars, docstore, storeBroken, symbols, manifest>>
    /\ UNCHANGED <<incremental, diffVars, index, new_nodes, new_map,
                   symbol_rows, nodes_count, symbols_count, mode, calls>>
    /\ fm' = IF pc = "boot_write" THEN new_map ELSE fm
    /\ IF pc = "noop_write"
       THEN Finish(new_map.files)
       ELSE /\ pc' = CASE pc = "boot_write" -> "diff"
                      [] pc = "fresh_write" -> "fresh_symbols"
                      [] pc = "incr_write" -> "incr_symbols"
            /\ UNCHANGED histVars

\* _save_filemap, second half: the text is written and the file closed.
\* Line 189 (bootstrap) makes the saved tracker the local filemap; line 294
\* (no-op) returns.
SaveFilemapWrite ==
    /\ UNCHANGED <<dirExists, sideVars>>
    /\ UNCHANGED used
    /\ pc \in {"boot_write", "noop_write", "fresh_write", "incr_write"}
    /\ filemap' = WrittenFilemap(new_map)
    /\ UNCHANGED <<envVars, docstore, storeBroken, symbols, manifest>>
    /\ UNCHANGED <<incremental, diffVars, index, new_nodes, new_map,
                   symbol_rows, nodes_count, symbols_count, mode, calls>>
    /\ fm' = IF pc = "boot_write" THEN new_map ELSE fm
    /\ IF pc = "noop_write"
       THEN Finish(new_map.files)
       ELSE /\ pc' = CASE pc = "boot_write" -> "diff"
                      [] pc = "fresh_write" -> "fresh_symbols"
                      [] pc = "incr_write" -> "incr_symbols"
            /\ UNCHANGED histVars

\* Mutant: the no-op path is chosen although entries differ in hash.
DiffNoopIgnoresModified ==
    /\ UNCHANGED <<dirExists, sideVars>>
    /\ UNCHANGED used
    /\ pc = "diff"
    /\ incremental /\ docstore.exists
    /\ LET a == DiffAdded(fm.files, CurHashes)
           m == DiffModified(fm.files, CurHashes)
           r == DiffRemoved(fm.files, CurHashes)
       IN  /\ a \cup r = {}
           /\ added_paths' = a
           /\ modified_paths' = m
           /\ removed_paths' = r
    /\ mode' = "noop"
    /\ pc' = "noop_manifest"
    /\ UNCHANGED <<envVars, diskVars, incremental, fm, index, new_nodes,
                   new_map, symbol_rows, nodes_count, symbols_count, calls,
                   histVars>>

\* lines 262-294, the diff reports no change: the no-op path is chosen.
DiffNoop ==
    /\ UNCHANGED <<dirExists, sideVars>>
    /\ UNCHANGED used
    /\ pc = "diff"
    /\ incremental /\ docstore.exists
    /\ LET a == DiffAdded(fm.files, CurHashes)
           m == DiffModified(fm.files, CurHashes)
           r == DiffRemoved(fm.files, CurHashes)
       IN  /\ a \cup m \cup r = {}
           /\ added_paths' = a
           /\ modified_paths' = m
           /\ removed_paths' = r
    /\ mode' = "noop"
    /\ pc' = "noop_manifest"
    /\ UNCHANGED <<envVars, diskVars, incremental, fm, index, new_nodes,
                   new_map, symbol_rows, nodes_count, symbols_count, calls,
                   histVars>>

\* lines 262-270, the diff reports a change.
DiffChanged ==
    /\ UNCHANGED <<dirExists, sideVars>>
    /\ UNCHANGED used
    /\ pc = "diff"
    /\ incremental /\ docstore.exists
    /\ LET a == DiffAdded(fm.files, CurHashes)
           m == DiffModified(fm.files, CurHashes)
           r == DiffRemoved(fm.files, CurHashes)
       IN  /\ a \cup m \cup r # {}
           /\ added_paths' = a
           /\ modified_paths' = m
           /\ removed_paths' = r
    /\ pc' = "load_index"
    /\ UNCHANGED <<envVars, diskVars, incremental, fm, index, new_nodes,
                   new_map, symbol_rows, nodes_count, symbols_count, mode,
                   calls, histVars>>

\* lines 295-298: no diff (full rebuild asked for, or no store on disk).
DiffBypass ==
    /\ UNCHANGED <<dirExists, sideVars>>
    /\ UNCHANGED used
    /\ pc = "diff"
    /\ ~(incremental /\ docstore.exists)
    /\ added_paths' = CurPaths
    /\ modified_paths' = {}
    /\ removed_paths' = DOMAIN fm.files
    /\ pc' = "load_index"
    /\ UNCHANGED <<envVars, diskVars, incremental, fm, index, new_nodes,
                   new_map, symbol_rows, nodes_count, symbols_count, mode,
                   calls, histVars>>

\* The canonical paths of the documents this call loaded (lines 216-242),
\* as the diff saw them: cur_files' keys are the previous keys without the
\* removed ones, plus the added ones.
LoadedPaths == (DOMAIN fm.files \ removed_paths) \cup added_paths

\* The manifest of lines 278-287 and 444-453.
Manifest(nn, ns) ==
    [exists |-> TRUE, documents |-> Cardinality(LoadedPaths),
     nodes |-> nn, symbols |-> ns, embed |-> profEmbed]

\* sum(1 for _ in sp.open()) if the sidecar exists (lines 274-277, 438-441).
CountSymbolLines(file) == IF file.exists THEN Len(file.rows) ELSE 0

\* Mutant: the no-op path back-fills the hashes but leaves the source field
\* of the tracker as it was loaded.
NoopManifestKeepsSource ==
    /\ UNCHANGED <<dirExists, sideVars>>
    /\ UNCHANGED used
    /\ pc = "noop_manifest"
    /\ nodes_count' = NodesInFiles(fm.files)
    /\ symbols_count' = CountSymbolLines(symbols)
    /\ manifest' = Manifest(nodes_count', symbols_count')
    /\ new_map' = Tracker(fm.source, NoopFiles(fm.files, CurHashes))
    /\ pc' = "noop_save"
    /\ UNCHANGED <<envVars, filemap, docstore, storeBroken, symbols,
                   incremental, fm, diffVars, index, new_nodes, symbol_rows,
                   mode, calls, histVars>>

\* lines 271-292: the no-op path writes the manifest, then stamps the source
\* and back-fills the hashes of the local filemap.
NoopManifest ==
    /\ UNCHANGED <<dirExists, sideVars>>
    /\ UNCHANGED used
    /\ pc = "noop_manifest"
    /\ nodes_count' = NodesInFiles(fm.files)
    /\ symbols_count' = CountSymbolLines(symbols)
    /\ manifest' = Manifest(nodes_count', symbols_count')
    /\ new_map' = Tracker(DesiredSource, NoopFiles(fm.files, CurHashes))
    /\ pc' = "noop_save"
    /\ UNCHANGED <<envVars, filemap, docstore, storeBroken, symbols,
                   incremental, fm, diffVars, index, new_nodes, symbol_rows,
                   mode, calls, histVars>>

\* ------------------------------------------------- load or create index
\* lines 301-306 when line 302 holds and _load_existing_index succeeds.
LoadIndexOk ==
    /\ UNCHANGED <<dirExists, sideVars>>
    /\ UNCHANGED used
    /\ pc = "load_index"
    /\ docstore.exists /\ incremental
    /\ storeBroken = "no"
    /\ index' = LoadedIndex(docstore.nodes)
    /\ calls' = Append(calls, [op |-> "reload", ids |-> {}, ok |-> TRUE])
    /\ mode' = "incr"
    /\ pc' = "incr_delete"
    /\ UNCHANGED <<envVars, diskVars, incremental, fm, diffVars, new_nodes,
                   new_map, symbol_rows, nodes_count, symbols_count, histVars>>

\* Mutant: the None that _load_existing_index returned is not checked and
\* the run goes on into the incremental branch with an empty index.
LoadIndexFailUnchecked ==
    /\ UNCHANGED <<dirExists, sideVars>>
    /\ UNCHANGED used
    /\ pc = "load_index"
    /\ docstore.exists /\ incremental
    /\ storeBroken # "no"
    /\ index' = LoadedIndex(NoNodes)
    /\ calls' = Append(calls, [op |-> "reload", ids |-> {}, ok |-> FALSE])
    /\ mode' = "incr"
    /\ pc' = "incr_delete"
    /\ UNCHANGED <<envVars, diskVars, incremental, fm, diffVars, new_nodes,
                   new_map, symbol_rows, nodes_count, symbols_count, histVars>>

\* lines 301-306 when _load_existing_index returns None (lines 136-137).
LoadIndexFail ==
    /\ UNCHANGED <<dirExists, sideVars>>
    /\ UNCHANGED used
    /\ pc = "load_index"
    /\ docstore.exists /\ incremental
    /\ storeBroken # "no"
    /\ index' = NoIndex
    /\ calls' = Append(calls, [op |-> "reload", ids |-> {}, ok |-> FALSE])
    /\ mode' = "full"
    /\ pc' = "fresh_split"
    /\ UNCHANGED <<envVars, diskVars, incremental, fm, diffVars, new_nodes,
                   new_map, symbol_rows, nodes_count, symbols_count, histVars>>

\* Mutant: without a reload the run still enters the incremental branch,
\* on an empty index, with the sets of lines 296-298.
LoadIndexSkipIntoIncremental ==
    /\ UNCHANGED <<dirExists, sideVars>>
    /\ UNCHANGED used
    /\ pc = "load_index"
    /\ ~(docstore.exists /\ incremental)
    /\ index' = LoadedIndex(NoNodes)
    /\ mode' = "incr"
    /\ pc' = "incr_delete"
    /\ UNCHANGED <<envVars, diskVars, incremental, fm, diffVars, new_nodes,
                   new_map, symbol_rows, nodes_count, symbols_count, calls,
                   histVars>>

\* lines 301-306 when line 302 does not hold: no reload is attempted.
LoadIndexSkip ==
    /\ UNCHANGED <<dirExists, sideVars>>
    /\ UNCHANGED used
    /\ pc = "load_index"
    /\ ~(docstore.exists /\ incremental)
    /\ mode' = "full"
    /\ pc' = "fresh_split"
    /\ UNCHANGED <<envVars, diskVars, incremental, fm, diffVars, index,
                   new_nodes, new_map, symbol_rows, nodes_count,
                   symbols_count, calls, histVars>>

\* How many nodes each path of `paths` gets: the splitter's, or the single
\* fallback node of lines 321 and 387 when the splitter raised.
SplitCounts(paths, splitFail) ==
    [p \in paths |-> IF p \in splitFail THEN 1 ELSE NodeCount(corpus[p])]

\* ------------------------------------------------------------ fresh build
\* lines 309-327: every document is split; a split error is caught per
\* document.  Symbols are extracted only after a successful split.
FreshSplit(splitFail) ==
    /\ UNCHANGED <<dirExists, sideVars>>
    /\ pc = "fresh_split"
    /\ Faults(Cardinality(splitFail))
    /\ splitFail \subseteq CurPaths
    /\ LET count == SplitCounts(CurPaths, splitFail)
       IN  /\ TotalCount(count) <= Len(FreeIds)
           /\ new_nodes' = MakeNodes(count)
    /\ symbol_rows' = RowsOf(CurPaths \ splitFail, 1)
    /\ pc' = "fresh_index"
    /\ UNCHANGED <<envVars, diskVars, incremental, fm, diffVars, index,
                   new_map, nodes_count, symbols_count, mode, calls, histVars>>

\* line 329: VectorStoreIndex(all_nodes) embeds and stores every node.
FreshIndex ==
    /\ UNCHANGED <<dirExists, sideVars>>
    /\ UNCHANGED used
    /\ pc = "fresh_index"
    /\ index' = LoadedIndex(AsStoreNodes(new_nodes, DOMAIN new_nodes))
    /\ calls' = Append(calls, [op |-> "create",
                               ids |-> DOMAIN index'.nodes, ok |-> TRUE])
    /\ pc' = "fresh_persist"
    /\ UNCHANGED <<envVars, diskVars, incremental, fm, diffVars, new_nodes,
                   new_map, symbol_rows, nodes_count, symbols_count, mode,
                   histVars>>

\* line 329 raising: nothing catches it, build_index ends with the
\* exception.
FreshIndexRaises ==
    /\ UNCHANGED <<dirExists, sideVars>>
    /\ Faults(1)
    /\ pc = "fresh_index"
    /\ FlattenIds(new_nodes, 1) # <<>>
    /\ pc' = "idle"
    /\ RunReset
    /\ outcome' = "raised"
    /\ clean' = FALSE
    /\ UNCHANGED <<envVars, diskVars, runClean, stamp, run0>>

\* line 330, and the tracker of lines 333-342 built in memory.
FreshPersist ==
    /\ UNCHANGED <<dirExists, sideVars>>
    /\ UNCHANGED used
    /\ pc = "fresh_persist"
    /\ docstore' = PersistedStore(index.nodes)
    /\ storeBroken' = "no"
    /\ new_map' = Tracker(DesiredSource, FreshFiles(new_nodes, CurHashes))
    /\ pc' = "fresh_save"
    /\ UNCHANGED <<envVars, filemap, symbols, manifest, incremental, fm,
                   diffVars, index, new_nodes, symbol_rows, nodes_count,
                   symbols_count, mode, calls, histVars>>

\* lines 345-351: the sidecar is written only if rows were extracted; the
\* counts are those of the in-memory lists.
FreshSymbols ==
    /\ UNCHANGED <<dirExists, sideVars>>
    /\ UNCHANGED used
    /\ pc = "fresh_symbols"
    /\ symbols' = IF symbol_rows # <<>>
                  THEN [exists |-> TRUE, rows |-> symbol_rows] ELSE symbols
    /\ nodes_count' = Len(FlattenIds(new_nodes, 1))
    /\ symbols_count' = Len(symbol_rows)
    /\ pc' = "manifest"
    /\ UNCHANGED <<envVars, filemap, docstore, storeBroken, manifest,
                   incremental, fm, diffVars, index, new_nodes, new_map,
                   symbol_rows, mode, calls, histVars>>

\* ----------------------------------------------------- incremental update
\* lines 361-366 when there is nothing to delete.
IncrDeleteNone ==
    /\ UNCHANGED <<dirExists, sideVars>>
    /\ UNCHANGED used
    /\ pc = "incr_delete"
    /\ ToDeleteIds(fm.files, removed_paths, modified_paths) = <<>>
    /\ pc' = "incr_insert"
    /\ UNCHANGED <<envVars, diskVars, runVars, histVars>>

\* Mutant: the delete call is made and reported done, the nodes stay.
IncrDeleteKeepsNodes ==
    /\ UNCHANGED <<dirExists, sideVars>>
    /\ UNCHANGED used
    /\ pc = "incr_delete"
    /\ LET ids == ToDeleteIds(fm.files, removed_paths, modified_paths)
       IN  /\ ids # <<>>
           /\ index' = index
           /\ calls' = Append(calls, [op |-> "delete", ids |-> Range(ids),
                                      ok |-> TRUE])
    /\ pc' = "incr_insert"
    /\ UNCHANGED <<envVars, diskVars, incremental, fm, diffVars, new_nodes,
                   new_map, symbol_rows, nodes_count, symbols_count, mode,
                   histVars>>

\* lines 361-368: the nodes of the removed and modified paths are deleted.
IncrDelete ==
    /\ UNCHANGED <<dirExists, sideVars>>
    /\ UNCHANGED used
    /\ pc = "incr_delete"
    /\ LET ids == ToDeleteIds(fm.files, removed_paths, modified_paths)
       IN  /\ ids # <<>>
           /\ index' = LoadedIndex(Without(index.nodes, Range(ids)))
           /\ calls' = Append(calls, [op |-> "delete", ids |-> Range(ids),
                                      ok |-> TRUE])
    /\ pc' = "incr_insert"
    /\ UNCHANGED <<envVars, diskVars, incremental, fm, diffVars, new_nodes,
                   new_map, symbol_rows, nodes_count, symbols_count, mode,
                   histVars>>

\* Mutant: after a failed delete the removed paths are no longer treated as
\* removed, so their entries are copied forward.
IncrDeleteFailsKeepsEntries ==
    /\ UNCHANGED <<dirExists, sideVars>>
    /\ Faults(1)
    /\ pc = "incr_delete"
    /\ LET ids == ToDeleteIds(fm.files, removed_paths, modified_paths)
       IN  /\ ids # <<>>
           /\ calls' = Append(calls, [op |-> "delete", ids |-> Range(ids),
                                      ok |-> FALSE])
    /\ removed_paths' = {}
    /\ pc' = "incr_insert"
    /\ UNCHANGED <<envVars, diskVars, incremental, fm, added_paths,
                   modified_paths, index, new_nodes, new_map, symbol_rows,
                   nodes_count, symbols_count, mode, histVars>>

\* lines 367-370: delete_nodes raises, the error is logged and the index
\* keeps the nodes.
IncrDeleteFails ==
    /\ UNCHANGED <<dirExists, sideVars>>
    /\ Faults(1)
    /\ pc = "incr_delete"
    /\ LET ids == ToDeleteIds(fm.files, removed_paths, modified_paths)
       IN  /\ ids # <<>>
           /\ calls' = Append(calls, [op |-> "delete", ids |-> Range(ids),
                                      ok |-> FALSE])
    /\ pc' = "incr_insert"
    /\ UNCHANGED <<envVars, diskVars, incremental, fm, diffVars, index,
                   new_nodes, new_map, symbol_rows, nodes_count,
                   symbols_count, mode, histVars>>

\* Mutant: the first insert failure ends the loop, the paths after it in
\* sorted order are not inserted either.
InsertedUntilFailure(todo, insertFail) ==
    {p \in todo : \A q \in insertFail : PosOf(p) < PosOf(q)}
\* The paths whose nodes reach the index (lines 394-397): insert_nodes is
\* called once per path inside its own try block.
Inserted(todo, insertFail) == todo \ insertFail

\* lines 373-412: every added or modified path is split and its nodes are
\* inserted; split and insert errors are caught per path; the new tracker
\* is assembled in memory.
IncrInsert(splitFail, insertFail) ==
    /\ UNCHANGED <<dirExists, sideVars>>
    /\ pc = "incr_insert"
    /\ Faults(Cardinality(splitFail) + Cardinality(insertFail))
    /\ LET todo == added_paths \cup modified_paths
           count == SplitCounts(todo, splitFail)
       IN  /\ splitFail \subseteq todo
           /\ insertFail \subseteq todo
           /\ TotalCount(count) <= Len(FreeIds)
           /\ new_nodes' = MakeNodes(count)
           /\ index' = LoadedIndex(
                  Merge(index.nodes,
                        AsStoreNodes(new_nodes', Inserted(todo, insertFail))))
           /\ calls' = calls \o InsertCalls(new_nodes', insertFail, 1)
           /\ symbol_rows' = RowsOf(todo \ splitFail, 1)
           /\ new_map' = Tracker(DesiredSource,
                  IncrFiles(fm.files, removed_paths, modified_paths,
                            UpdatedEntries(new_nodes', CurHashes)))
    /\ pc' = "incr_save"
    /\ UNCHANGED <<envVars, diskVars, incremental, fm, diffVars, nodes_count,
                   symbols_count, mode, histVars>>

\* lines 416-431: rows of modified and removed paths are filtered out, the
\* new rows appended, the file rewritten or unlinked.
IncrSymbols ==
    /\ UNCHANGED <<dirExists, sideVars>>
    /\ UNCHANGED used
    /\ pc = "incr_symbols"
    /\ LET existing == IF symbols.exists
                       THEN KeptRows(symbols.rows, modified_paths, removed_paths)
                       ELSE <<>>
           rows == existing \o symbol_rows
       IN  symbols' = IF rows # <<>> THEN [exists |-> TRUE, rows |-> rows]
                      ELSE AbsentSymbols
    /\ pc' = "incr_persist"
    /\ UNCHANGED <<envVars, filemap, docstore, storeBroken, manifest,
                   runVars, histVars>>

\* lines 434-441: the index is persisted, the counts read back from the
\* tracker and the sidecar.
IncrPersist ==
    /\ UNCHANGED <<dirExists, sideVars>>
    /\ UNCHANGED used
    /\ pc = "incr_persist"
    /\ docstore' = PersistedStore(index.nodes)
    /\ nodes_count' = NodesInFiles(new_map.files)
    /\ symbols_count' = CountSymbolLines(symbols)
    /\ pc' = "manifest"
    /\ UNCHANGED <<envVars, filemap, storeBroken, symbols, manifest,
                   incremental, fm, diffVars, index, new_nodes, new_map,
                   symbol_rows, mode, calls, histVars>>

\* lines 443-455: the final manifest; build_index returns.
WriteManifest ==
    /\ UNCHANGED <<dirExists, sideVars>>
    /\ UNCHANGED used
    /\ pc = "manifest"
    /\ manifest' = Manifest(nodes_count, symbols_count)
    /\ Finish(new_map.files)
    /\ UNCHANGED <<envVars, filemap, docstore, storeBroken, symbols, runVars>>

\* The process is interrupted somewhere inside build_index: its memory is
\* gone, the directory stays as it is.
Crash ==
    /\ UNCHANGED <<dirExists, sideVars>>
    /\ Faults(1)
    /\ pc # "idle"
    /\ pc' = "idle"
    /\ RunReset
    /\ outcome' = "crashed"
    /\ clean' = FALSE
    /\ UNCHANGED <<envVars, diskVars, runClean, stamp, run0>>

Next ==
    \/ \E p \in Paths : \E c \in Contents \cup {NotInCorpus} : MutateCorpus(p, c)
    \/ \E s \in Sources : ChangeSource(s)
    \/ DeleteFilemap
    \/ \E what \in {"docstore", "other"} : BreakStore(what)
    \/ DeleteStore
    \/ BuildStart
    \/ BootstrapSkip
    \/ BootstrapBuild
    \/ SaveFilemapOpen
    \/ SaveFilemapWrite
    \/ DiffNoop
    \/ DiffChanged
    \/ DiffBypass
    \/ NoopManifest
    \/ LoadIndexOk
    \/ LoadIndexFail
    \/ LoadIndexSkip
    \/ \E sf \in SUBSET Paths : FreshSplit(sf)
    \/ FreshIndex
    \/ FreshIndexRaises
    \/ FreshPersist
    \/ FreshSymbols
    \/ IncrDeleteNone
    \/ IncrDelete
    \/ IncrDeleteFails
    \/ \E sf \in SUBSET Paths : \E nf \in SUBSET Paths : IncrInsert(sf, nf)
    \/ IncrSymbols
    \/ IncrPersist
    \/ WriteManifest
    \/ Crash

Spec == Init /\ [][Next]_vars

\* ------------------------------------------------ the diff on any input
\* Every previous files map over Paths (hashes EmptyHash..MaxContent + 1)
\* and every current corpus, at the point where build_index computes the
\* diff (line 262), with and without a store on disk, for both values of
\* `incremental`.
PrevFilesInputs ==
    UNION {[S -> {FileEntry(h, <<>>) : h \in 0..(MaxContent + 1)}] : S \in SUBSET Paths}

InitDiff ==
    /\ corpus \in [Paths -> Contents \cup {NotInCorpus}]
    /\ st_size = [p \in Paths |-> Ceiling - 1]
    /\ profSource = "local:/a"
    /\ dirExists = TRUE
    /\ filemap = AbsentFilemap
    /\ docstore \in {AbsentStore, PersistedStore(NoNodes)}
    /\ storeBroken = "no"
    /\ symbols = AbsentSymbols
    /\ manifest = AbsentManifest
    /\ pc = "diff"
    /\ incremental \in BOOLEAN
    /\ fm \in {Tracker(NoSource, f) : f \in PrevFilesInputs}
    /\ added_paths = {}
    /\ modified_paths = {}
    /\ removed_paths = {}
    /\ index = NoIndex
    /\ new_nodes = NoNewNodes
    /\ new_map = EmptyTracker
    /\ symbol_rows = <<>>
    /\ nodes_count = 0
    /\ symbols_count = 0
    /\ mode = ""
    /\ calls = <<>>
    /\ outcome = "running"
    /\ clean = FALSE
    /\ runClean = FALSE
    /\ stamp = EmptyFiles
    /\ run0 = NoRun0
    /\ used = [builds |-> 1, env |-> 0, faults |-> 0]
    /\ profEmbed = "openai:text-embedding-3-large"
    /\ other = NoOther
    /\ watch = NoWatch

NextDiff == DiffNoop \/ DiffChanged \/ DiffBypass

SpecDiff == InitDiff /\ [][NextDiff]_vars

\* ------------------------------------- a first call on any tree and profile
\* build_index called once on a source tree with files of any size, for a
\* local, a remote or a source-less profile, the directory absent, empty, or
\* holding only a filemap.json that is cut short or has a list as "files".
InitLoad ==
    /\ corpus \in [Paths -> Contents \cup {NotInCorpus}]
    /\ st_size \in [Paths -> FileSizes]
    /\ profSource \in Sources \cup {UnknownSource}
    /\ dirExists \in BOOLEAN
    /\ filemap \in (IF dirExists
                    THEN {AbsentFilemap, PartialFilemap, WrongTypeFilemap}
                    ELSE {AbsentFilemap})
    /\ docstore = AbsentStore
    /\ storeBroken = "no"
    /\ symbols = AbsentSymbols
    /\ manifest = AbsentManifest
    /\ pc = "idle"
    /\ incremental = TRUE
    /\ fm = EmptyTracker
    /\ added_paths = {}
    /\ modified_paths = {}
    /\ removed_paths = {}
    /\ index = NoIndex
    /\ new_nodes = NoNewNodes
    /\ new_map = EmptyTracker
    /\ symbol_rows = <<>>
    /\ nodes_count = 0
    /\ symbols_count = 0
    /\ mode = ""
    /\ calls = <<>>
    /\ outcome = "none"
    /\ clean = FALSE
    /\ runClean = FALSE
    /\ stamp = EmptyFiles
    /\ run0 = NoRun0
    /\ used = [builds |-> MaxBuilds - 1, env |-> 0, faults |-> 0]
    /\ profEmbed = "openai:text-embedding-3-large"
    /\ other = NoOther
    /\ watch = NoWatch

NextLoad ==
    \/ BuildStart
    \/ BuildNoSource
    \/ BuildTrackerWrongType
    \/ BootstrapSkip
    \/ DiffBypass
    \/ LoadIndexSkip
    \/ \E sf \in SUBSET Paths : FreshSplit(sf)
    \/ FreshIndex
    \/ FreshPersist
    \/ SaveFilemapOpen
    \/ SaveFilemapWrite
    \/ FreshSymbols
    \/ WriteManifest

SpecLoad == InitLoad /\ [][NextLoad]_vars

\* -------------------------------------- builds with different profiles
\* The build state machine with a profile whose embed spec may change
\* between calls.
NextEmbed ==
    \/ Next
    \/ \E e \in EmbedSpecs : ChangeEmbed(e)

SpecEmbed == Init /\ [][NextEmbed]_vars

\* ------------------------------------------------------------ ragcode watch
\* cli.py lines 107-148.  `watch` holds the clock (now), Handler._last
\* (last), the events the observer has not dispatched yet (queue), the
\* number of file changes so far (events) and how many of them had happened
\* when the latest build_index call loaded the tree (covered).  The observer
\* dispatches one event at a time: the handler runs build_index to its end
\* before the next event is looked at.

\* A file of the watched tree is created, edited or deleted; the observer
\* queues an event for it.
FileChange(p, c) ==
    /\ watch.on
    /\ watch.events < MaxEvents
    /\ pc \in CorpusFreePcs
    /\ c # corpus[p]
    /\ corpus' = [corpus EXCEPT ![p] = c]
    /\ watch' = [watch EXCEPT !.events = @ + 1, !.queue = @ + 1]
    /\ UNCHANGED <<st_size, profSource, profEmbed, dirExists, diskVars, pc,
                   runVars, histVars, used, other>>

\* A second passes.
Tick ==
    /\ watch.on
    /\ watch.now < WatchEpoch + MaxTicks
    /\ watch' = [watch EXCEPT !.now = @ + 1]
    /\ UNCHANGED <<envVars, dirExists, diskVars, pc, runVars, histVars, used,
                   other>>

\* on_any_event, lines 132-134: the event comes less than `debounce`
\* seconds after the last accepted one; the handler returns.
HandleDrop ==
    /\ watch.on
    /\ pc = "idle"
    /\ watch.queue > 0
    /\ watch.now - watch.last < debounce
    /\ watch' = [watch EXCEPT !.queue = @ - 1]
    /\ UNCHANGED <<envVars, dirExists, diskVars, pc, runVars, histVars, used,
                   other>>

\* on_any_event, lines 132-137: the event is accepted, _last is set and
\* build_index is called.
HandleAccept ==
    /\ watch.on
    /\ watch.queue > 0
    /\ ~(watch.now - watch.last < debounce)
    /\ watch' = [watch EXCEPT !.queue = @ - 1, !.last = watch.now,
                              !.covered = watch.events]
    /\ BuildEnter
    /\ UNCHANGED other

\* The watcher started on a tree of one file with an empty persist
\* directory; no failure is injected.
InitWatch ==
    /\ corpus = [p \in Paths |-> IF p = "a.py" THEN 1 ELSE NotInCorpus]
    /\ st_size = [p \in Paths |-> Ceiling - 1]
    /\ profSource = "local:/a"
    /\ profEmbed = "openai:text-embedding-3-large"
    /\ dirExists = FALSE
    /\ filemap = AbsentFilemap
    /\ docstore = AbsentStore
    /\ storeBroken = "no"
    /\ symbols = AbsentSymbols
    /\ manifest = AbsentManifest
    /\ pc = "idle"
    /\ incremental = TRUE
    /\ fm = EmptyTracker
    /\ added_paths = {}
    /\ modified_paths = {}
    /\ removed_paths = {}
    /\ index = NoIndex
    /\ new_nodes = NoNewNodes
    /\ new_map = EmptyTracker
    /\ symbol_rows = <<>>
    /\ nodes_count = 0
    /\ symbols_count = 0
    /\ mode = ""
    /\ calls = <<>>
    /\ outcome = "none"
    /\ clean = FALSE
    /\ runClean = FALSE
    /\ stamp = EmptyFiles
    /\ run0 = NoRun0
    /\ used = [builds |-> MaxBuilds - MaxEvents, env |-> MaxEnv,
               faults |-> MaxFaults]
    /\ other = NoOther
    /\ watch = [on |-> TRUE, now |-> WatchEpoch, last |-> 0, queue |-> 0,
                events |-> 0, covered |-> 0]

NextWatch ==
    \/ \E p \in Paths : \E c \in Contents \cup {NotInCorpus} : FileChange(p, c)
    \/ Tick
    \/ HandleDrop
    \/ HandleAccept
    \/ BootstrapSkip
    \/ SaveFilemapOpen
    \/ SaveFilemapWrite
    \/ DiffNoop
    \/ DiffChanged
    \/ DiffBypass
    \/ NoopManifest
    \/ LoadIndexOk
    \/ LoadIndexSkip
    \/ \E sf \in SUBSET Paths : FreshSplit(sf)
    \/ FreshIndex
    \/ FreshPersist
    \/ FreshSymbols
    \/ IncrDeleteNone
    \/ IncrDelete
    \/ \E sf \in SUBSET Paths : \E nf \in SUBSET Paths : IncrInsert(sf, nf)
    \/ IncrSymbols
    \/ IncrPersist
    \/ WriteManifest

SpecWatch == InitWatch /\ [][NextWatch]_vars

\* ------------------------------------------- two overlapping invocations
\* build_index takes no lock: a second process may run it on the same
\* directory at any time.  `other` holds the invocation that is not taking
\* steps; Switch hands the processor to it.
ThisRun ==
    [pc |-> pc, incremental |-> incremental, fm |-> fm,
     added_paths |-> added_paths, modified_paths |-> modified_paths,
     removed_paths |-> removed_paths, index |-> index,
     new_nodes |-> new_nodes, new_map |-> new_map,
     symbol_rows |-> symbol_rows, nodes_count |-> nodes_count,
     symbols_count |-> symbols_count, mode |-> mode, calls |-> calls]

Switch ==
    /\ pc # "idle" \/ other.pc # "idle"
    /\ other' = ThisRun
    /\ pc' = other.pc
    /\ incremental' = other.incremental
    /\ fm' = other.fm
    /\ added_paths' = other.added_paths
    /\ modified_paths' = other.modified_paths
    /\ removed_paths' = other.removed_paths
    /\ index' = other.index
    /\ new_nodes' = other.new_nodes
    /\ new_map' = other.new_map
    /\ symbol_rows' = other.symbol_rows
    /\ nodes_count' = other.nodes_count
    /\ symbols_count' = other.symbols_count
    /\ mode' = other.mode
    /\ calls' = other.calls
    /\ UNCHANGED <<envVars, dirExists, diskVars, histVars, used, watch>>

\* The node ids of the build that filled the directory.
FirstIds == [p \in {"a.py"} |-> <<1>>]

\* The directory as a clean full rebuild of a local tree of one file left
\* it (lines 307-351, 443-455); both invocations are still to start, and no
\* failure is injected.
InitConc ==
    /\ corpus = [p \in Paths |-> IF p = "a.py" THEN 1 ELSE NotInCorpus]
    /\ st_size = [p \in Paths |-> Ceiling - 1]
    /\ profSource = "local:/a"
    /\ profEmbed = "openai:text-embedding-3-large"
    /\ dirExists = TRUE
    /\ filemap = WrittenFilemap(Tracker(DesiredSource,
                                        FreshFiles(FirstIds, CurHashes)))
    /\ docstore = PersistedStore(AsStoreNodes(FirstIds, DOMAIN FirstIds))
    /\ storeBroken = "no"
    /\ symbols = [exists |-> TRUE, rows |-> RowsOf(DOMAIN FirstIds, 1)]
    /\ manifest = [exists |-> TRUE,
                   documents |-> Cardinality(DOMAIN FirstIds),
                   nodes |-> Len(FlattenIds(FirstIds, 1)),
                   symbols |-> Len(RowsOf(DOMAIN FirstIds, 1)),
                   embed |-> profEmbed]
    /\ pc = "idle"
    /\ incremental = TRUE
    /\ fm = EmptyTracker
    /\ added_paths = {}
    /\ modified_paths = {}
    /\ removed_paths = {}
    /\ index = NoIndex
    /\ new_nodes = NoNewNodes
    /\ new_map = EmptyTracker
    /\ symbol_rows = <<>>
    /\ nodes_count = 0
    /\ symbols_count = 0
    /\ mode = ""
    /\ calls = <<>>
    /\ outcome = "none"
    /\ clean = FALSE
    /\ runClean = FALSE
    /\ stamp = EmptyFiles
    /\ run0 = NoRun0
    /\ used = [builds |-> 0, env |-> MaxEnv - ConcEnv, faults |-> MaxFaults]
    /\ other = NoOther
    /\ watch = NoWatch

NextConc ==
    \/ Switch
    \/ \E p \in Paths : \E c \in Contents \cup {NotInCorpus} : MutateCorpus(p, c)
    \/ BuildStart
    \/ BootstrapSkip
    \/ BootstrapBuild
    \/ SaveFilemapOpen
    \/ SaveFilemapWrite
    \/ DiffNoop
    \/ DiffChanged
    \/ NoopManifest
    \/ LoadIndexOk
    \/ IncrDeleteNone
    \/ IncrDelete
    \/ \E sf \in SUBSET Paths : \E nf \in SUBSET Paths : IncrInsert(sf, nf)
    \/ IncrSymbols
    \/ IncrPersist
    \/ WriteManifest

SpecConc == InitConc /\ [][NextConc]_vars

\* ------------------------------------------------- losing filemap.json
\* How many builds a behaviour of SpecBoot may start.
BootBuilds == 4

\* filemap.json is deleted right after a completed build in which no Index
\* Store call failed; nothing else is touched.  stamp keeps the files map
\* that is lost, clean stays TRUE: the corpus, the profile and the store
\* are as that build left them.
LoseFilemap ==
    /\ pc = "idle"
    /\ outcome = "done"
    /\ \A i \in DOMAIN calls : calls[i].ok
    /\ filemap.kind = "ok"
    /\ used.env < MaxEnv
    /\ used' = [used EXCEPT !.env = @ + 1]
    /\ filemap' = AbsentFilemap
    /\ stamp' = filemap.data.files
    /\ outcome' = "none"
    /\ UNCHANGED <<envVars, dirExists, docstore, storeBroken, symbols,
                   manifest, pc, runVars, clean, runClean, run0, sideVars>>

\* A local tree and a directory that does not exist yet.
InitBoot ==
    /\ corpus \in [Paths -> Contents \cup {NotInCorpus}]
    /\ st_size = [p \in Paths |-> Ceiling - 1]
    /\ profSource = "local:/a"
    /\ profEmbed = "openai:text-embedding-3-large"
    /\ dirExists = FALSE
    /\ filemap = AbsentFilemap
    /\ docstore = AbsentStore
    /\ storeBroken = "no"
    /\ symbols = AbsentSymbols
    /\ manifest = AbsentManifest
    /\ pc = "idle"
    /\ incremental = TRUE
    /\ fm = EmptyTracker
    /\ added_paths = {}
    /\ modified_paths = {}
    /\ removed_paths = {}
    /\ index = NoIndex
    /\ new_nodes = NoNewNodes
    /\ new_map = EmptyTracker
    /\ symbol_rows = <<>>
    /\ nodes_count = 0
    /\ symbols_count = 0
    /\ mode = ""
    /\ calls = <<>>
    /\ outcome = "none"
    /\ clean = FALSE
    /\ runClean = FALSE
    /\ stamp = EmptyFiles
    /\ run0 = NoRun0
    /\ used = [builds |-> MaxBuilds - BootBuilds, env |-> 0, faults |-> 0]
    /\ other = NoOther
    /\ watch = NoWatch

\* Builds in which every split succeeds; a delete or an insert call may
\* fail (at most MaxFaults of them); between builds the tree or the
\* profile's source may change, the store may be deleted and filemap.json
\* may be lost.
NextBoot ==
    \/ \E p \in Paths : \E c \in Contents \cup {NotInCorpus} : MutateCorpus(p, c)
    \/ \E s \in Sources : ChangeSource(s)
    \/ DeleteStore
    \/ LoseFilemap
    \/ BuildStart
    \/ BootstrapSkip
    \/ BootstrapBuild
    \/ SaveFilemapOpen
    \/ SaveFilemapWrite
    \/ DiffNoop
    \/ DiffChanged
    \/ DiffBypass
    \/ NoopManifest
    \/ LoadIndexOk
    \/ LoadIndexSkip
    \/ FreshSplit({})
    \/ FreshIndex
    \/ FreshPersist
    \/ FreshSymbols
    \/ IncrDeleteNone
    \/ IncrDelete
    \/ IncrDeleteFails
    \/ \E nf \in SUBSET Paths : IncrInsert({}, nf)
    \/ IncrSymbols
    \/ IncrPersist
    \/ WriteManifest

SpecBoot == InitBoot /\ [][NextBoot]_vars

\* =================================================================== claims
\* The run is past its diff, and the diff branch (line 262) was taken.
DiffTaken ==
    /\ pc \in {"noop_manifest", "load_index"}
    /\ incremental /\ docstore.exists

\* C6: Diff completeness.  For every previous files map and every current
\* path-to-hash map the diff of lines 262-269 classifies each path once:
\* added, modified and unchanged make up the current paths; removed,
\* modified and unchanged make up the previous paths; the four sets are
\* pairwise disjoint; modified paths are in both maps with different
\* hashes and unchanged paths (those copied forward) in both with equal
\* hashes.
C6_DiffComplete ==
    DiffTaken =>
        LET prev == fm.files
            cur == CurHashes
            unchanged == CopiedForward(prev, removed_paths, modified_paths)
        IN  /\ added_paths \cup modified_paths \cup unchanged = DOMAIN cur
            /\ removed_paths \cup modified_paths \cup unchanged = DOMAIN prev
            /\ added_paths \cap modified_paths = {}
            /\ added_paths \cap removed_paths = {}
            /\ added_paths \cap unchanged = {}
            /\ modified_paths \cap removed_paths = {}
            /\ modified_paths \cap unchanged = {}
            /\ removed_paths \cap unchanged = {}
            /\ \A p \in added_paths : p \notin DOMAIN prev
            /\ \A p \in removed_paths : p \notin DOMAIN cur
            /\ \A p \in modified_paths : prev[p].hash # cur[p]
            /\ \A p \in unchanged : prev[p].hash = cur[p]

\* C6 witness: a diff that classified one path modified and the other
\* removed.
C6_Witness ==
    /\ DiffTaken
    /\ modified_paths # {}
    /\ removed_paths # {}

\* The classification of the paths of the previous tracker `prev` against
\* the current corpus, stated from the hashes alone.
SemRemoved(prev) == DOMAIN prev \ CurPaths
SemAdded(prev) == CurPaths \ DOMAIN prev
SemModified(prev) == {p \in DOMAIN prev \cap CurPaths : prev[p].hash # Hash(corpus[p])}
SemUnchanged(prev) == {p \in DOMAIN prev \cap CurPaths : prev[p].hash = Hash(corpus[p])}

CallsOf(o) == {i \in 1..Len(calls) : calls[i].op = o}

\* Two files maps that differ at most in hashes the second one filled in.
SameModuloBackfill(f, g) ==
    /\ DOMAIN f = DOMAIN g
    /\ \A p \in DOMAIN f :
        /\ f[p].node_ids = g[p].node_ids
        /\ f[p].hash = g[p].hash \/ f[p].hash = EmptyHash

\* C1: Idempotence.  A build that starts with the corpus, the profile and
\* the directory exactly as the previous completed build left them takes
\* the no-op path, issues no insert (or index construction) and no delete
\* call, and leaves a tracker equal to the previous one up to back-filled
\* hashes.
C1_Idempotence ==
    (runClean /\ outcome \in {"running", "done"}) =>
        /\ mode \in {"", "noop"}
        /\ CallsOf("insert") \cup CallsOf("delete") \cup CallsOf("create") = {}
        /\ outcome = "done" => SameModuloBackfill(stamp, filemap.data.files)

\* C2: Tracker truthfulness.  After every completed build each node id a
\* tracker entry lists is a node of the persisted Index Store, stored under
\* that entry's path and cut from the content whose hash the entry records.
C2_TrackerTruthful ==
    outcome = "done" =>
        \A p \in DOMAIN filemap.data.files :
            \A n \in Range(filemap.data.files[p].node_ids) :
                /\ n \in DOMAIN docstore.nodes
                /\ docstore.nodes[n].cp = p
                /\ docstore.nodes[n].h = filemap.data.files[p].hash

\* C3: Partition invariant.  In every tracker on disk, whatever builds,
\* bootstraps, failures and interruptions produced it, no node id is listed
\* by two entries and none twice by one entry.
C3_Partition ==
    LET files == filemap.data.files
    IN  \A p \in DOMAIN files : \A q \in DOMAIN files :
            \A i \in 1..Len(files[p].node_ids) :
                \A j \in 1..Len(files[q].node_ids) :
                    (files[p].node_ids[i] = files[q].node_ids[j])
                        => (p = q /\ i = j)

\* C3 witness: a tracker written by an incremental update that lists nodes
\* under both paths, two of them under one path.
C3_Witness ==
    /\ outcome = "done"
    /\ mode = "incr"
    /\ DOMAIN filemap.data.files = Paths
    /\ \A p \in Paths : Len(filemap.data.files[p].node_ids) >= 1
    /\ \E p \in Paths : Len(filemap.data.files[p].node_ids) >= 2

\* The tracker and the store name the same nodes.
PairConsistent(f, d) == TrackerIds(LoadFilemap(f).files) = DOMAIN d.nodes

\* C4: Crash consistency.  When a build is interrupted, the tracker and the
\* Index Store on disk still go together: if they named the same nodes
\* when the run started, they name the same nodes after the interruption.
C4_CrashConsistent ==
    (outcome = "crashed" /\ PairConsistent(run0.fm, run0.ds))
        => PairConsistent(filemap, docstore)

\* C5: Atomic tracker save.  At every instant filemap.json is absent or
\* holds a complete tracker, never the cut-off text of an unfinished write.
C5_AtomicSave == filemap.kind # "partial"

\* The run found a tracker naming another source than the profile's.
SourceMismatchRun ==
    /\ outcome \in {"running", "done"}
    /\ LoadFilemap(run0.fm).source # NoSource
    /\ LoadFilemap(run0.fm).source # DesiredSource

FullPcs == {"fresh_split", "fresh_index", "fresh_persist", "fresh_save",
            "fresh_write", "fresh_symbols", "manifest"}
\* The full rebuild has assembled its tracker.
FreshMapBuilt ==
    mode = "full" /\ (pc \in {"fresh_save", "fresh_write", "fresh_symbols", "manifest"}
                      \/ outcome = "done")

\* C7: Source-identity override.  A run that finds a tracker with a
\* non-empty source other than its own does a full rebuild: no bootstrap,
\* no diff (the sets are those of lines 296-298), no no-op, no reload,
\* insert or delete on the old store, and the new tracker carries no entry
\* and no node id of the old one.
C7_SourceOverride ==
    SourceMismatchRun =>
        /\ ~incremental
        /\ pc \in {"bootstrap", "diff", "load_index", "idle"} \cup FullPcs
        /\ mode \in {"", "full"}
        /\ fm = LoadFilemap(run0.fm)
        /\ pc \in FullPcs \cup {"load_index", "idle"} =>
              /\ added_paths = CurPaths
              /\ modified_paths = {}
              /\ removed_paths = DOMAIN fm.files
        /\ \A i \in 1..Len(calls) : calls[i].op = "create"
        /\ FreshMapBuilt =>
              /\ TrackerIds(new_map.files) \cap TrackerIds(fm.files) = {}
              /\ \A p \in DOMAIN new_map.files :
                    /\ new_map.files[p].node_ids = new_nodes[p]
                    /\ new_map.files[p].hash = Hash(corpus[p])
        /\ outcome = "done" =>
              /\ mode = "full"
              /\ filemap = WrittenFilemap(new_map)
              /\ DOMAIN docstore.nodes = TrackerIds(new_map.files)

\* C7 witness: a completed run over a tracker of another source in which a
\* path has the same hash in the old tracker and in the corpus.
C7_Witness ==
    /\ SourceMismatchRun
    /\ outcome = "done"
    /\ \E p \in DOMAIN fm.files \cap CurPaths :
          /\ fm.files[p].hash = Hash(corpus[p])
          /\ fm.files[p].node_ids # <<>>

\* The incremental update has saved its tracker.
IncrSaved ==
    mode = "incr" /\ (pc \in {"incr_symbols", "incr_persist", "manifest"}
                      \/ outcome = "done")

\* C8: Incremental tracker assembly.  In the tracker an incremental update
\* saves, an unchanged path keeps its previous entry, an added or modified
\* path has the current hash and exactly this run's node ids (none of the
\* previous tracker's), and a removed path has no entry.
C8_IncrementalAssembly ==
    IncrSaved =>
        LET prev == fm.files
            files == filemap.data.files
        IN  /\ filemap.kind = "ok"
            /\ DOMAIN files = CurPaths
            /\ \A p \in SemUnchanged(prev) : files[p] = prev[p]
            /\ \A p \in SemAdded(prev) \cup SemModified(prev) :
                  /\ files[p].hash = Hash(corpus[p])
                  /\ files[p].node_ids = new_nodes[p]
                  /\ Range(files[p].node_ids) \cap TrackerIds(prev) = {}
                  /\ Range(files[p].node_ids) \cap DOMAIN run0.ds.nodes = {}
            /\ \A p \in SemRemoved(prev) : p \notin DOMAIN files

\* C8 witness: the scenario of the spec: one path unchanged, the other
\* modified, both with nodes.
C8_Witness ==
    /\ IncrSaved
    /\ outcome = "done"
    /\ \E p \in SemUnchanged(fm.files) : fm.files[p].node_ids # <<>>
    /\ \E p \in SemModified(fm.files) :
          fm.files[p].node_ids # <<>> /\ new_nodes[p] # <<>>

\* The incremental update is past its delete step.
PastDelete ==
    mode = "incr" /\ (pc \in {"incr_insert", "incr_save", "incr_write",
                              "incr_symbols", "incr_persist", "manifest"}
                      \/ outcome = "done")

\* C9: Removal.  In an incremental update every node id the previous
\* tracker lists for a removed or modified path is passed to the delete
\* call, no node id of an unchanged path is, and the delete call comes
\* before every insert call.
C9_Removal ==
    PastDelete =>
        LET prev == fm.files
            gone == UNION {Range(prev[p].node_ids) :
                              p \in SemRemoved(prev) \cup SemModified(prev)}
            kept == UNION {Range(prev[p].node_ids) : p \in SemUnchanged(prev)}
        IN  /\ \A n \in gone : \E i \in CallsOf("delete") : n \in calls[i].ids
            /\ \A i \in CallsOf("delete") : calls[i].ids \cap kept = {}
            /\ \A i \in CallsOf("delete") : \A j \in CallsOf("insert") : i < j

\* C9 witness: a completed incremental update that removed one path with
\* nodes and inserted nodes for the other, keeping nothing.
C9_Witness ==
    /\ PastDelete
    /\ outcome = "done"
    /\ \E p \in SemRemoved(fm.files) : fm.files[p].node_ids # <<>>
    /\ \E j \in CallsOf("insert") : calls[j].ids # {}
    /\ CallsOf("delete") # {}

\* The run attempted to reload the store and the reload failed.
ReloadFailed == \E i \in CallsOf("reload") : ~calls[i].ok

\* C10 as claimed: every run that finds docstore.json present but not
\* reloadable ends having performed a full rebuild, also when its diff
\* reports no change.
C10_BrokenStoreAlwaysRebuilt ==
    (outcome = "done" /\ run0.ds.exists /\ run0.broken # "no") => mode = "full"

\* C10 as amended: a failed reload is caught and sends the run into the
\* full rebuild: no delete or insert is issued on an index, and the run
\* that completes has created the store from all current items and built
\* the tracker from scratch.  The reload is attempted only after a diff
\* that reported a change (or found nothing to compare); the no-op path
\* never attempts it.
C10_ReloadFailure ==
    /\ ReloadFailed =>
          /\ mode = "full"
          /\ pc \in FullPcs \cup {"idle"}
          /\ run0.ds.exists /\ run0.broken # "no"
          /\ added_paths \cup modified_paths \cup removed_paths # {}
          /\ CallsOf("insert") \cup CallsOf("delete") = {}
          /\ outcome = "done" =>
                /\ DOMAIN new_nodes = CurPaths
                /\ docstore = PersistedStore(AsStoreNodes(new_nodes, CurPaths))
                /\ storeBroken = "no"
                /\ filemap = WrittenFilemap(new_map)
                /\ TrackerIds(new_map.files) \cap TrackerIds(fm.files) = {}
                /\ \A p \in DOMAIN new_map.files :
                      new_map.files[p] = FileEntry(Hash(corpus[p]), new_nodes[p])
    /\ mode = "noop" => calls = <<>>

\* C10 witness: a completed run whose reload failed, over a corpus with
\* nodes and a previous tracker with nodes.
C10_Witness ==
    /\ ReloadFailed
    /\ outcome = "done"
    /\ TrackerIds(fm.files) # {}
    /\ DOMAIN docstore.nodes # {}

\* The full rebuild has saved its tracker.
FreshSaved ==
    mode = "full" /\ (pc \in {"fresh_symbols", "manifest"} \/ outcome = "done")

\* The rows of symbols.jsonl; none if the file is absent.
SidecarRows(file) == IF file.exists THEN file.rows ELSE <<>>

\* C11: Full-rebuild tracker.  The tracker a full rebuild saves has an entry
\* for each canonical path of the current corpus, zero-node items included,
\* each with the hash of the item's current content and exactly the node
\* ids made for it in this pass, and nothing of the previous tracker.
C11_FreshTracker ==
    FreshSaved =>
        LET files == filemap.data.files
        IN  /\ filemap.kind = "ok"
            /\ DOMAIN files = CurPaths
            /\ \A p \in DOMAIN files :
                  files[p] = FileEntry(Hash(corpus[p]), new_nodes[p])
            /\ TrackerIds(files) \cap TrackerIds(fm.files) = {}
            /\ TrackerIds(files) \cap DOMAIN run0.ds.nodes = {}

\* The full rebuild is past its sidecar step.
FreshSidecarDone == mode = "full" /\ (pc = "manifest" \/ outcome = "done")

\* C12: Full-rebuild sidecar.  After a full rebuild symbols.jsonl holds
\* exactly the rows extracted in this pass; when none were extracted, no
\* row of an earlier run is left on disk.
C12_FreshSidecar ==
    FreshSidecarDone => SidecarRows(symbols) = symbol_rows

\* The incremental update is past its sidecar step.
IncrSidecarDone ==
    mode = "incr" /\ (pc \in {"incr_persist", "manifest"} \/ outcome = "done")

\* The canonical path of the source file a sidecar row was extracted from.
RowFile(r) == r.file_path.rel

\* C13: Incremental sidecar sync.  After an incremental update the sidecar
\* is the previous rows whose source file is neither modified nor removed,
\* followed by the rows extracted from the added and modified files that
\* support extraction: no row of a removed file or of the old content of a
\* modified file is left, and no row is there twice.
C13_IncrSidecarSync ==
    IncrSidecarDone =>
        LET gone == modified_paths \cup removed_paths
            kept == SelectSeq(SidecarRows(run0.sy),
                              LAMBDA r : RowFile(r) \notin gone)
        IN  SidecarRows(symbols)
                = kept \o RowsOf(added_paths \cup modified_paths, 1)

\* The rows of a sidecar that were extracted from the file p, and their
\* symbols in order.
RowsOfFile(rows, p) == SelectSeq(rows, LAMBDA r : RowFile(r) = p)
SymsOf(rows) == [i \in 1..Len(rows) |-> rows[i].sym]
\* The symbols derivable from the content of p that has the hash h.
SymsAtHash(p, h) ==
    IF FileExt(p) = ".py" /\ \E c \in Contents : Hash(c) = h
    THEN SymsOf(ExtractSymbols(p, CHOOSE c \in Contents : Hash(c) = h))
    ELSE <<>>

\* C14: Derived stores agree.  After every completed build every sidecar
\* row belongs to a file the persisted tracker lists, and the rows of each
\* listed file are those derivable from the content at its recorded hash.
C14_SidecarAgreesWithTracker ==
    outcome = "done" =>
        LET files == filemap.data.files
            rows == SidecarRows(symbols)
        IN  /\ \A i \in 1..Len(rows) : RowFile(rows[i]) \in DOMAIN files
            /\ \A p \in DOMAIN files :
                  SymsOf(RowsOfFile(rows, p)) = SymsAtHash(p, files[p].hash)

\* C15: Manifest consistent with disk.  After every build that completed on
\* the incremental or the full-rebuild path, manifest.counts.nodes is the
\* sum of the node_ids lengths of the persisted tracker and
\* manifest.counts.symbols the number of rows of the persisted sidecar.
C15_ManifestMatchesDisk ==
    (outcome = "done" /\ mode \in {"full", "incr"}) =>
        /\ manifest.exists
        /\ manifest.nodes = NodesInFiles(filemap.data.files)
        /\ manifest.symbols = CountSymbolLines(symbols)

\* Bootstrap has rebuilt a tracker from the stored nodes (lines 176-187).
BootBuilt == pc \in {"boot_save", "boot_write"}

\* The keys and node ids bootstrap must produce: one key per canonical path
\* found on a stored node, each listing exactly the nodes tagged with it.
BootGrouping(files, nodes) ==
    /\ DOMAIN files = {nodes[n].cp : n \in DOMAIN nodes}
    /\ \A cp \in DOMAIN files :
          /\ Range(files[cp].node_ids) = {n \in DOMAIN nodes : nodes[n].cp = cp}
          /\ Len(files[cp].node_ids) = Cardinality(Range(files[cp].node_ids))
    /\ \A cp \in DOMAIN files : \A cq \in DOMAIN files :
          cp # cq => Range(files[cp].node_ids) \cap Range(files[cq].node_ids) = {}
    /\ TrackerIds(files) = DOMAIN nodes

C17_CompletesDespiteItemFailures ==
    (pc = "idle" /\ outcome \notin {"none", "crashed"}) =>
        (outcome = "done" /\ manifest.exists)

\* The files of the source tree larger than the ceiling, and those of
\* exactly the ceiling size.
Oversized == {p \in Paths : corpus[p] # NotInCorpus /\ st_size[p] > Ceiling}
AtCeiling == {p \in Paths : corpus[p] # NotInCorpus /\ st_size[p] = Ceiling}
\* The canonical paths that have a node in the persisted or in-memory store.
StoredPaths ==
    {docstore.nodes[n].cp : n \in DOMAIN docstore.nodes}
    \cup {index.nodes[n].cp : n \in DOMAIN index.nodes}

\* C18: Size ceiling.  For a local and for a remote source alike, a file
\* larger than max_file_size_kb * 1024 bytes never gets a node in the Index
\* Store nor an entry in the tracker, and the run does not fail over it; a
\* file of exactly that size is indexed.
C18_SizeCeiling ==
    (profSource \in Sources /\ TrackerEnumerable(LoadFilemap(run0.fm))) =>
        /\ \A p \in Oversized :
              /\ p \notin StoredPaths
              /\ p \notin DOMAIN filemap.data.files
              /\ p \notin DOMAIN new_map.files
        /\ outcome # "raised"
        /\ outcome = "done" =>
              \A p \in AtCeiling :
                  /\ p \in DOMAIN new_nodes
                  /\ new_nodes[p] # <<>> =>
                        /\ p \in StoredPaths
                        /\ p \in DOMAIN filemap.data.files

\* The last build_index call was made with a profile that names no source.
NoSourceCall == profSource = UnknownSource /\ used.builds = MaxBuilds

\* C19: No valid source.  With neither a local path nor a remote repo
\* build_index fails with a fatal error and leaves the persisted state as
\* it was: no directory is created, and tracker, Index Store, sidecar and
\* manifest are neither created nor modified.
C19_NoSourceTouchesNothing ==
    NoSourceCall =>
        /\ outcome = "raised"
        /\ dirExists = run0.dir
        /\ filemap = run0.fm
        /\ docstore = run0.ds
        /\ symbols = run0.sy
        /\ manifest = run0.mf

\* C20: Tracker load never fails.  _load_filemap returns the empty state
\* for an absent or unparsable filemap.json, and otherwise a state that
\* has version, source and files, files being a map, so that the diff of a
\* run with a valid source can always enumerate the previous paths.
C20_TrackerLoadTotal ==
    LET t == LoadFilemap(filemap)
    IN  /\ filemap.kind \in {"absent", "partial"} => t = EmptyTracker
        /\ {"version", "source", "files"} \subseteq DOMAIN t
        /\ TrackerEnumerable(t)
        /\ profSource \in Sources => outcome # "raised"

\* ---------------------------------------------------------------- C21
\* The paths an invocation found added, modified or removed.
Delta(r) == r.added_paths \cup r.modified_paths \cup r.removed_paths

\* Both invocations ran the incremental branch to its end, from the same
\* prior tracker, on disjoint sets of changed paths.
BothApplied ==
    /\ pc = "idle" /\ other.pc = "idle"
    /\ mode = "incr" /\ other.mode = "incr"
    /\ fm = other.fm
    /\ Delta(ThisRun) # {} /\ Delta(other) # {}
    /\ Delta(ThisRun) \cap Delta(other) = {}

\* f and g say the same about path p.
SameAt(f, g, p) ==
    /\ p \in DOMAIN f <=> p \in DOMAIN g
    /\ p \in DOMAIN f => f[p] = g[p]

\* On every path invocation r changed, the persisted tracker still says what
\* the prior tracker said.
Discarded(r) ==
    \A p \in Delta(r) : SameAt(filemap.data.files, r.fm.files, p)

\* C21: concurrent builds are unsafe.  Whenever two interleaved invocations
\* on one directory have read the same prior tracker and applied disjoint
\* deltas, the persisted tracker is a complete file and holds the delta of
\* at most one of them: the later whole-file save has discarded what the
\* other invocation changed.
C21_ConcurrentBuildsUnsafe ==
    BothApplied =>
        /\ filemap.kind = "ok"
        /\ Discarded(ThisRun) \/ Discarded(other)

\* Both invocations are over, this one saved last, and the entries the other
\* one had assembled for its changed paths are not in the persisted tracker.
C21_Witness ==
    /\ BothApplied
    /\ filemap.data = new_map
    /\ Discarded(other)
    /\ \E p \in Delta(other) : ~SameAt(other.new_map.files, other.fm.files, p)

\* ---------------------------------------------------------------- C22
\* The run on the no-op path has written its manifest.
NoopManifestWritten ==
    mode = "noop" /\ pc \in {"noop_save", "noop_write", "idle"}

\* The run on the no-op path has returned.
NoopReturned == mode = "noop" /\ pc = "idle" /\ outcome = "done"

\* C22: a run whose diff reports no added, modified or removed path issues
\* no Index Store call, leaves docstore.json and symbols.jsonl as they were
\* when it started, writes a manifest whose node count is the sum of the
\* tracker's node lists and whose symbol count is the sidecar's line count,
\* and when it returns the persisted tracker carries this run's source
\* identity and as many nodes as the manifest reports.
C22_NoopEffects ==
    /\ mode = "noop" =>
          /\ added_paths \cup modified_paths \cup removed_paths = {}
          /\ calls = <<>>
          /\ ~index.loaded
          /\ docstore = run0.ds
          /\ storeBroken = run0.broken
          /\ symbols = run0.sy
    /\ NoopManifestWritten =>
          /\ manifest.exists
          /\ manifest.nodes = NodesInFiles(fm.files)
          /\ manifest.symbols = CountSymbolLines(symbols)
          /\ manifest.documents = Cardinality(CurPaths)
    /\ NoopReturned =>
          /\ filemap.kind = "ok"
          /\ filemap.data.source = profSource
          /\ DOMAIN filemap.data.files = DOMAIN fm.files
          /\ NodesInFiles(filemap.data.files) = manifest.nodes

\* A no-op run has returned that started from a bootstrapped tracker, which
\* has no source, over a store and a sidecar that are not empty.
C22_Witness ==
    /\ NoopReturned
    /\ fm.source = NoSource
    /\ manifest.nodes > 0
    /\ manifest.symbols > 0

\* ---------------------------------------------------------------- C23
\* The run is at the bootstrap step or has just left it.
AroundBootstrap == pc \in {"bootstrap", "boot_save", "boot_write", "diff"}

\* The bootstrap step is over and it saved a tracker.
BootstrapWrote == pc = "diff" /\ filemap # run0.fm

C23_EmptyStoreCase ==
    /\ pc = "diff"
    /\ incremental /\ docstore.exists /\ fm.files = EmptyFiles
    /\ DOMAIN ReadDocstoreNodes = {}

\* ---------------------------------------------------------------- C25
\* The delete call of this incremental update failed.
DeleteFailed == mode = "incr" /\ \E i \in CallsOf("delete") : ~calls[i].ok

\* The incremental update has assembled its new tracker.
IncrAssembled ==
    mode = "incr" /\ pc \in {"incr_save", "incr_write", "incr_symbols",
                             "incr_persist", "manifest", "idle"}

\* The node ids the previous tracker lists for removed and modified paths.
OldIds(prev) ==
    UNION {Range(prev[p].node_ids) : p \in SemRemoved(prev) \cup SemModified(prev)}

\* C25: when the delete call of an incremental update fails the run goes on
\* to its end; the tracker it assembles and saves has no entry for a removed
\* path, has for every modified path the entry made in this run, and lists
\* none of the node ids the previous tracker had for removed or modified
\* paths.
C25_DeleteFailure ==
    DeleteFailed =>
        /\ pc = "idle" => outcome = "done"
        /\ IncrAssembled =>
              LET prev == fm.files
                  files == new_map.files
              IN  /\ SemRemoved(prev) \cap DOMAIN files = {}
                  /\ \A p \in SemModified(prev) :
                        /\ p \in DOMAIN files
                        /\ files[p] = FileEntry(Hash(corpus[p]), new_nodes[p])
                  /\ TrackerIds(files) \cap OldIds(prev) = {}
        /\ IncrSaved => filemap = WrittenFilemap(new_map)

\* A finished incremental update whose delete call failed, with a removed
\* and a modified path that both had nodes: the persisted store still holds
\* the old nodes, the persisted tracker does not list them.
C25_Witness ==
    /\ DeleteFailed
    /\ pc = "idle" /\ outcome = "done"
    /\ \E p \in SemRemoved(fm.files) : fm.files[p].node_ids # <<>>
    /\ \E p \in SemModified(fm.files) : fm.files[p].node_ids # <<>>
    /\ OldIds(fm.files) \subseteq DOMAIN docstore.nodes
    /\ TrackerIds(filemap.data.files) \cap OldIds(fm.files) = {}

\* ---------------------------------------------------------------- C29
\* C29: after every build that returns a manifest, the persisted tracker is
\* a complete file whose source is the identity of the profile the run was
\* made with and whose version is 1.
C29_SourceStamped ==
    (pc = "idle" /\ outcome = "done") =>
        /\ filemap.kind = "ok"
        /\ filemap.data.source = profSource
        /\ filemap.data.version = 1

\* A build has returned whose tracker came from bootstrap, which saved it
\* without a source.
C29_Witness ==
    /\ pc = "idle" /\ outcome = "done"
    /\ mode \in {"noop", "incr"}
    /\ fm.source = NoSource
    /\ fm.files # EmptyFiles

\* ---------------------------------------------------------------- C30
\* C30: after every completed build the key set of the persisted tracker's
\* files map is the set of canonical paths of the current corpus items.
C30_TrackerCoversCorpus ==
    (pc = "idle" /\ outcome = "done") =>
        /\ filemap.kind = "ok"
        /\ DOMAIN filemap.data.files = CurPaths

\* ---------------------------------------------------------------- C26
\* The diff of lines 262-298 has been computed, on whichever branch.
DiffDone == pc \in {"noop_manifest", "load_index"}

\* The condition of line 262: the three-way diff is computed.
DiffBranch == incremental /\ docstore.exists

\* The paths the previous tracker holds with the empty sentinel hash.
SentinelPaths(prev) == {p \in DOMAIN prev : prev[p].hash = EmptyHash}

\* C26 as stated: every sentinel-hash entry is classified modified by the
\* diff that next examines it.
C26_SentinelModified ==
    DiffDone => SentinelPaths(fm.files) \subseteq modified_paths

\* C26 as amended: a sentinel-hash entry is never classified unchanged.  The
\* diff that examines it classifies it removed when its path is not in the
\* current corpus (the only case in which bootstrap writes the sentinel) or
\* when the incremental diff is bypassed, and modified when its path is in
\* the corpus; its entry is never copied forward and the run is never a
\* no-op.
C26_SentinelStale ==
    DiffDone =>
        \A p \in SentinelPaths(fm.files) :
            /\ p \in removed_paths \cup modified_paths
            /\ p \in removed_paths <=> (p \notin CurPaths \/ ~DiffBranch)
            /\ p \in modified_paths <=> (p \in CurPaths /\ DiffBranch)
            /\ p \notin CopiedForward(fm.files, removed_paths, modified_paths)
            /\ mode # "noop"

\* The incremental diff has examined a sentinel entry whose path is gone
\* from the corpus and one whose path is in it.
C26_Witness ==
    /\ DiffDone
    /\ DiffBranch
    /\ \E p \in SentinelPaths(fm.files) : p \notin CurPaths /\ p \in removed_paths
    /\ \E p \in SentinelPaths(fm.files) : p \in CurPaths /\ p \in modified_paths

\* ---------------------------------------------------------------- C24
\* The insert step as it goes when nothing fails: the nodes made, the index
\* and the files map of the new tracker.
RefNodes == MakeNodes(SplitCounts(added_paths \cup modified_paths, {}))
RefIndex ==
    Merge(index.nodes, AsStoreNodes(RefNodes, added_paths \cup modified_paths))
RefFiles ==
    IncrFiles(fm.files, removed_paths, modified_paths,
              UpdatedEntries(RefNodes, CurHashes))

\* NodeIds has enough unused ids for the step without a failure (a failed
\* split yields one fallback node, the split itself may yield more).
RefHasIds ==
    TotalCount(SplitCounts(added_paths \cup modified_paths, {})) <= Len(FreeIds)

\* The nodes the index `nodes` holds for path q.
IndexNodesOf(nodes, q) == {n \in DOMAIN nodes : nodes[n].cp = q}

\* Path q has the same tracker entry in files maps f and g and the same
\* nodes in indexes x and y, node ids being fresh in every run: the same
\* hash, as many listed ids, the listed ids all in the index or all not, and
\* as many nodes of q in the index, with the same content.
SameForPath(q, f, x, g, y) ==
    /\ q \in DOMAIN f <=> q \in DOMAIN g
    /\ q \in DOMAIN f =>
          /\ f[q].hash = g[q].hash
          /\ Len(f[q].node_ids) = Len(g[q].node_ids)
          /\ Range(f[q].node_ids) \subseteq DOMAIN x
                <=> Range(g[q].node_ids) \subseteq DOMAIN y
    /\ Cardinality(IndexNodesOf(x, q)) = Cardinality(IndexNodesOf(y, q))
    /\ {x[n] : n \in IndexNodesOf(x, q)} = {y[n] : n \in IndexNodesOf(y, q)}

\* C24: failure isolation.  Whatever split or insert failure the insert
\* step of an incremental update meets on a path, every other path has the
\* tracker entry and the index nodes it has when the step runs without a
\* failure.
C24_FailureIsolation ==
    [][\A sf \in SUBSET Paths : \A nf \in SUBSET Paths :
          (IncrInsert(sf, nf) /\ RefHasIds) =>
              \A q \in Paths \ (sf \cup nf) :
                  SameForPath(q, new_map'.files, index'.nodes, RefFiles, RefIndex)]_vars

\* The insert step has run with a failed insert on one path and a
\* successful insert of nodes of another path.
C24_Witness ==
    /\ mode = "incr" /\ pc = "incr_save"
    /\ \E i \in CallsOf("insert") : ~calls[i].ok /\ calls[i].ids # {}
    /\ \E j \in CallsOf("insert") : calls[j].ok /\ calls[j].ids # {}

\* ---------------------------------------------------------------- C27
\* _load_manifest_embed (query.py lines 41-44): the embed spec query_index
\* configures.
LoadManifestEmbed == IF manifest.exists THEN manifest.embed ELSE NoEmbed

\* C27: whenever a build has returned, the embed spec query_index reads from
\* manifest.json is the backend every node of the persisted Index Store was
\* embedded with.
C27_QueryUsesIndexTimeEmbedding ==
    (pc = "idle" /\ outcome = "done") =>
        \A n \in DOMAIN docstore.nodes : docstore.nodes[n].emb = LoadManifestEmbed

\* ---------------------------------------------------------------- C28
\* C28: in watch mode, whenever the observer has no event left to dispatch
\* and the handler is not running, every file change so far had happened
\* when the latest build loaded the tree: no change is left un-indexed.
C28_WatchCoversEveryChange ==
    (watch.on /\ watch.queue = 0 /\ pc = "idle") =>
        watch.covered = watch.events

\* ---------------------------------------------------------------- C31
\* The sets of lines 296-298 are in use: every current path is in
\* added_paths and every previous path in removed_paths.
BypassSets ==
    /\ mode = "full"
    /\ ~ReloadFailed
    /\ pc # "idle"

\* C31: whenever a run is in the incremental branch, added_paths,
\* modified_paths and removed_paths are pairwise disjoint and not all
\* empty, added and modified paths are current paths, removed and modified
\* paths are paths of the previous tracker, the three-way diff was the
\* branch taken and the store was reloaded; a run that is not in the
\* incremental branch issues no delete and no insert call.
C31_IncrementalOnDiffOnly ==
    /\ mode = "incr" =>
          /\ added_paths \cap modified_paths = {}
          /\ added_paths \cap removed_paths = {}
          /\ modified_paths \cap removed_paths = {}
          /\ added_paths \cup modified_paths \cup removed_paths # {}
          /\ added_paths \cup modified_paths \subseteq CurPaths
          /\ removed_paths \cup modified_paths \subseteq DOMAIN fm.files
          /\ added_paths = DiffAdded(fm.files, CurHashes)
          /\ modified_paths = DiffModified(fm.files, CurHashes)
          /\ removed_paths = DiffRemoved(fm.files, CurHashes)
          /\ incremental /\ run0.ds.exists
          /\ index.loaded
          /\ \E i \in CallsOf("reload") : calls[i].ok
    /\ mode # "incr" =>
          /\ CallsOf("delete") = {}
          /\ CallsOf("insert") = {}

\* A finished incremental update that deleted the nodes of a removed path
\* and inserted the nodes of an added or modified one.
C31_Witness ==
    /\ mode = "incr" /\ pc = "idle" /\ outcome = "done"
    /\ removed_paths # {}
    /\ added_paths \cup modified_paths # {}
    /\ \E i \in CallsOf("delete") : calls[i].ids # {}
    /\ \E j \in CallsOf("insert") : calls[j].ids # {}

\* The other case of C31: a full rebuild under way whose added_paths and
\* removed_paths overlap.
C31_OverlapCase ==
    /\ BypassSets
    /\ added_paths \cap removed_paths # {}
    /\ pc \in {"fresh_save", "fresh_write", "fresh_symbols", "manifest"}

\* ---------------------------------------------------------------- C32
\* C32: on the no-op path every entry of the in-memory tracker holds the
\* hash of its current document, so the back-fill of lines 289-292 changes
\* nothing; the files map handed to _save_filemap, and the one on disk when
\* the run returns, equal entry by entry (hash and node_ids) the files map
\* the run held after loading and bootstrapping.  Only the source may
\* differ.
C32_NoopKeepsEntries ==
    /\ mode = "noop" /\ pc # "idle" =>
          /\ DOMAIN fm.files = CurPaths
          /\ \A p \in DOMAIN fm.files :
                /\ fm.files[p].hash # EmptyHash
                /\ fm.files[p].hash = CurHashes[p]
          /\ NoopFiles(fm.files, CurHashes) = fm.files
    /\ NoopManifestWritten =>
          /\ DOMAIN new_map.files = DOMAIN fm.files
          /\ \A p \in DOMAIN fm.files :
                /\ new_map.files[p].hash = fm.files[p].hash
                /\ new_map.files[p].node_ids = fm.files[p].node_ids
          /\ new_map.version = fm.version
    /\ NoopReturned =>
          /\ filemap.kind = "ok"
          /\ filemap.data.files = fm.files

\* A no-op run has returned with a tracker that lists nodes, and the source
\* it wrote differs from the source it loaded.
C32_Witness ==
    /\ NoopReturned
    /\ \E p \in DOMAIN fm.files : fm.files[p].node_ids # <<>>
    /\ filemap.data.files = fm.files
    /\ filemap.data.source # fm.source

\* A no-op run that bootstrapped its tracker from the store has returned:
\* the entries it wrote are the bootstrapped ones, not the ones of the
\* filemap.json it found.
C32_BootstrappedCase ==
    /\ NoopReturned
    /\ fm.files # LoadFilemap(run0.fm).files
    /\ filemap.data.files = fm.files
    /\ fm.files # EmptyFiles

\* ---------------------------------------------------------------- C33
\* This run started with filemap.json lost after a completed build in which
\* no call failed and with nothing else touched since, and it is past the
\* bootstrap step: fm is the tracker the run goes on with, stamp the lost one.
AfterLoss == runClean /\ run0.fm.kind = "absent" /\ pc = "diff"

\* The tracker after the bootstrap step has every path of the lost tracker
\* that listed a node, with the same set of node ids.
RoundTrip ==
    \A p \in DOMAIN stamp :
        stamp[p].node_ids # <<>> =>
            /\ p \in DOMAIN fm.files
            /\ Range(fm.files[p].node_ids) = Range(stamp[p].node_ids)

C33_OrphanCase ==
    /\ AfterLoss /\ used.faults > 0
    /\ \E p \in DOMAIN stamp :
          /\ stamp[p].node_ids # <<>>
          /\ p \in DOMAIN fm.files
          /\ Range(stamp[p].node_ids) \subseteq Range(fm.files[p].node_ids)
          /\ Range(stamp[p].node_ids) # Range(fm.files[p].node_ids)

\* ---------------------------------------------------------------- C34
\* A build has returned its manifest and nothing was touched since.
BuildCompleted == pc = "idle" /\ outcome = "done"

\* C34: when no insert and no delete call has failed in any build so far
\* (no split and no reload fails in SpecBoot), then after each completed
\* build docstore.json and filemap.json are both there and the node ids in
\* the persisted store are exactly the ids the persisted tracker's entries
\* list, each listed once.
C34_TrackerMatchesStore ==
    (BuildCompleted /\ used.faults = 0) =>
        /\ docstore.exists
        /\ filemap.kind = "ok"
        /\ TrackerIds(filemap.data.files) = DOMAIN docstore.nodes
        /\ NodesInFiles(filemap.data.files) = Cardinality(DOMAIN docstore.nodes)
        /\ \A n \in DOMAIN docstore.nodes :
              /\ docstore.nodes[n].cp \in DOMAIN filemap.data.files
              /\ n \in Range(filemap.data.files[docstore.nodes[n].cp].node_ids)

\* The fourth build of a failure-free sequence has completed an incremental
\* update that deleted and inserted nodes, and the store holds nodes of two
\* paths.
C34_Witness ==
    /\ BuildCompleted /\ used.faults = 0
    /\ used.builds = MaxBuilds
    /\ mode = "incr"
    /\ \E i \in CallsOf("delete") : calls[i].ids # {}
    /\ \E i \in CallsOf("insert") : calls[i].ids # {}
    /\ \E n, m \in DOMAIN docstore.nodes : docstore.nodes[n].cp # docstore.nodes[m].cp
    /\ TrackerIds(filemap.data.files) = DOMAIN docstore.nodes

\* After a build with a failed call the two sets differ.
C34_FailedCallCase ==
    /\ BuildCompleted /\ used.faults > 0
    /\ TrackerIds(filemap.data.files) # DOMAIN docstore.nodes

\* ---------------------------------------------------------------- C35
\* The current or last call had a valid source and found no docstore.json
\* when it started.
StoreAbsentRun ==
    /\ outcome \in {"running", "done", "raised"}
    /\ profSource \in Sources
    /\ ~run0.ds.exists

\* What a run that found no store does on the way: no bootstrap, no
\* three-way diff, no no-op, no reload and no delete; the sets of lines
\* 296-298; every current item split; the index made of all their nodes;
\* the new tracker made of those nodes only.
C35_PathChoice ==
    StoreAbsentRun =>
        /\ pc \notin {"boot_save", "boot_write",
                      "noop_manifest", "noop_save", "noop_write",
                      "incr_delete", "incr_insert", "incr_save", "incr_write",
                      "incr_symbols", "incr_persist"}
        /\ mode \in {"", "full"}
        /\ CallsOf("reload") = {} /\ CallsOf("delete") = {}
        /\ CallsOf("insert") = {}
        /\ pc # "idle" => fm = LoadFilemap(run0.fm)
        /\ pc = "load_index" =>
              /\ added_paths = CurPaths
              /\ modified_paths = {}
              /\ removed_paths = DOMAIN fm.files
        /\ pc \in {"fresh_index", "fresh_persist"} => DOMAIN new_nodes = CurPaths
        /\ pc = "fresh_persist" =>
              DOMAIN index.nodes = Range(FlattenIds(new_nodes, 1))
        /\ FreshSaved =>
              /\ DOMAIN new_nodes = LoadedPaths
              /\ DOMAIN docstore.nodes = Range(FlattenIds(new_nodes, 1))
              /\ filemap.kind = "ok"
              /\ \A p \in DOMAIN filemap.data.files :
                    /\ p \in DOMAIN new_nodes
                    /\ filemap.data.files[p].node_ids = new_nodes[p]
              /\ TrackerIds(filemap.data.files)
                    \cap TrackerIds(LoadFilemap(run0.fm).files) = {}
              /\ \E i \in CallsOf("create") :
                    calls[i].ids = Range(FlattenIds(new_nodes, 1))

\* C35: a run with a valid source that finds no docstore.json when it starts
\* neither bootstraps nor diffs nor takes the no-op path, whatever
\* filemap.json holds; it performs a full rebuild (it does not end with an
\* exception) in which every current item is split and inserted, and the
\* new tracker holds nothing of the surviving one.
C35_MissingStoreRebuilds ==
    /\ C35_PathChoice
    /\ StoreAbsentRun => outcome # "raised"
    /\ (StoreAbsentRun /\ pc = "idle") => (outcome = "done" /\ mode = "full")

\* The store was deleted while a tracker that matches the corpus survived;
\* the run rebuilt everything under new node ids.
C35_SurvivingTrackerCase ==
    /\ StoreAbsentRun /\ pc = "idle" /\ outcome = "done" /\ mode = "full"
    /\ run0.fm.kind = "ok"
    /\ DOMAIN run0.fm.data.files = CurPaths
    /\ \A p \in CurPaths : run0.fm.data.files[p].hash = CurHashes[p]
    /\ TrackerIds(run0.fm.data.files) # {}
    /\ TrackerIds(filemap.data.files) # {}
    /\ TrackerIds(filemap.data.files) \cap TrackerIds(run0.fm.data.files) = {}
=============================================================================
